---- MODULE Spec2Model ----
(***************************************************************************)
(* State-machine model of browser-fs-core: the per-path mutex and LockedFS, *)
(* the AsyncMirror writer queue, the OverlayFS deletion-log writer and its  *)
(* two layers, the key-value filesystem engine, modes and owners, the mount *)
(* table, the file descriptor table and PreloadFile.  Each part has its own *)
(* next-state relation and specification over one shared set of variables;  *)
(* a part that a specification does not exercise stays at its initial       *)
(* value.                                                                   *)
(***************************************************************************)
EXTENDS Integers, Sequences, FiniteSets, TLC

(***************************************************************************)
(* Bounds of the model.                                                     *)
(***************************************************************************)
MaxCalls == 3

MaxOps == 3

MaxLowerPaths == 3

MaxIds == 6

MaxData == 1

MaxFds == 1

MaxTxKeys == 2

MaxOvCalls == 2

MaxUid == 2

MaxPathLen == 6

MaxOpens == 2
\* Longest file buffer a PreloadFile write may produce.
MaxFileLen == 4
\* Reads and writes made on one PreloadFile handle.
MaxPfOps == 2
\* Flag strings that get an object in FileFlag.flagCache.
MaxCached == 2
\* Calls made on the async key-value engine whose lookups are cached.
MaxCacheCalls == 3
\* Ids randomUUID draws in one addNewNode call of the model.
MaxRolls == 6
\* Longest buffer of the MirrorFile.
MaxMirrorLen == 2

MutexPaths == {"/x", "/y"}

Calls == 1..MaxCalls

VARIABLES
    locks,      \* Mutex._locks: path -> [has: entry present, q: waiting resolvers]
    timers,     \* macro-task queue of setTimeout(next, 0) callbacks, oldest first
    pc,         \* position of each async LockedFS call
    cpath,      \* primary path of each async LockedFS call
    direct,     \* paths currently held through Mutex.tryLock
    inserter,   \* calls whose lock() found no entry and inserted one
    order,      \* per path: calls pushed on the waiter queue, in call order
    granted,    \* per path: calls whose lock() promise was resolved, in order
    late,       \* calls whose lock() ran while a timer for the same path was pending
    \* AsyncMirror
    mq,         \* AsyncMirror._queue
    mrun,       \* AsyncMirror._queueRunning
    mstyle,     \* how the async backend reports completion
    msync,      \* mutating sync calls that succeeded on the sync backend, in order
    msub,       \* operations submitted to the async backend, in order
    mfly,       \* operations submitted and not yet settled
    mdone,      \* operations the async backend completed successfully
    mfailed,    \* an async call has failed
    \* OverlayFS deletion log
    dlog,       \* UnlockedOverlayFS._deleteLog, as its sequence of lines
    ddel,       \* paths p with _deletedFiles[p] === true
    dpend,      \* _deleteLogUpdatePending
    dneed,      \* _deleteLogUpdateNeeded
    derr,       \* _deleteLogError !== null
    ddisk,      \* lines of /.deletedFiles.log on the writable layer
    dw,         \* writeFile calls of the log not yet through their promise chain
    dfailed,    \* a write of the log has failed since the last start
    \* key-value engine
    kv,         \* the store: what get(key) returns for every key
    kvEngine,   \* "sync": SyncKeyValueFileSystem, "async": AsyncKeyValueFileSystem
    kvFds,      \* open file handles: path and the type bits of their stats
    kvRb,       \* the rollback of an abort() that was called and not awaited
    kvLast,     \* outcome of the last call
    \* calls of the key-value filesystem and one file handle
    kvNote,     \* the last call: what was called, with what, and its outcome
    kvFile,     \* the handle: its path, buffer, dirty flag and type bits
    kvPend,     \* the _sync of a sync() that close() started and did not await
    \* UnlockedOverlayFS over a writable and a readable layer
    ovUpper,    \* the tree of _writable
    ovLower,    \* the tree of _readable
    ovDeleted,  \* the paths p with _deletedFiles[p] === true
    ovNote,     \* the last call of the overlay
    ovCalls,    \* the number of calls of the overlay so far
    \* modes and owners of the inodes of a key-value filesystem
    mdInode,    \* the stored inode of one directory: its mode, uid and gid
    mdNote,     \* the last call on it: what was called, with what, and its outcome
    \* the mount table and the top-level calls (src/dist/emulation)
    mtMounts,   \* the keys of mounts: the mount points, each with its own filesystem
    mtNote,     \* the last top-level call: its arguments and what it did
    \* the table of file descriptors (src/dist/emulation/shared.js)
    fdMap,      \* fdMap: what is open at each descriptor, NoHandle where there is no entry
    nextFd,     \* nextFd
    fdClosing,  \* the descriptors with a close() that awaits the close of the handle
    fdEver,     \* every descriptor an open has returned, with what it opened
    fdClosed,   \* the descriptors whose close has returned
    fdReused,   \* an open has returned a descriptor that an earlier open had returned
    fdNote,     \* the last call on a descriptor: the descriptor and the outcome
    \* LockedFS synchronous methods
    lsNote,     \* the last synchronous LockedFS call: path, thrown or delegated
    \* one PreloadFile handle
    pf,         \* flag, buffer, stat.size, position and dirty mark of the handle
    pfOps,      \* number of reads and writes made on the handle
    pfNote,     \* the last read or write: arguments, position used, result
    \* FileFlag cache
    ffCache,    \* FileFlag.flagCache: the flag strings that have an object
    ffNote,     \* the last getFileFlag call and what its object answered
    \* FolderAdapter over a wrapped filesystem
    faTree,     \* the tree of the writable wrapped filesystem
    faCall,     \* the _initialize call that is suspended at its first await, if any
    faNote,     \* how the last _initialize ended
    \* path cache of the async key-value engine
    kcList,     \* the root directory's listing in the store: name to inode id
    kcCache,    \* the entries of the LRU cache object: path to inode id
    kcOn,       \* whether this._cache refers to the cache object
    kcCall,     \* the calls in progress: operation, stage, arguments, locals
    kcNote,     \* the last answer of a lookup
    \* addNewNode over a key-value store
    anStore,    \* the store of addNewNode: id to data
    anNote,     \* the last addNewNode call and how it ended
    \* AsyncMirror over one file
    mfSync,     \* the file /f on the sync backend: whether it exists, its bytes
    mfAsync,    \* the file /f on the async backend
    mfFd,       \* the MirrorFile that is open, if any
    mfArgs,     \* the arguments of the mirror operations: bytes and flag
    mfSilent,   \* an openSync that changed the sync backend was closed without a write
    \* the mount table from module load on
    btMounts,   \* mounts: the filesystem at each mount point
    btPending,  \* the default root mount of module load has not run yet
    btNote,     \* the last call: its arguments, and what it or the default mount threw
    \* one SimpleSyncRWTransaction over an InMemoryStore
    txn,        \* the store and the transaction's originalData and modifiedKeys
    txPhase,    \* "open", "aborted" or "committed"
    txBegin,    \* the store when the transaction began
    txPre,      \* the store when abort() was called
    txTouched   \* the keys passed to get, put or del by the transaction

mutexVars == <<locks, timers, pc, cpath, direct, inserter, order, granted, late>>

mirrorVars == <<mq, mrun, mstyle, msync, msub, mfly, mdone, mfailed>>

logVars == <<dlog, ddel, dpend, dneed, derr, ddisk, dw, dfailed>>

kvVars == <<kv, kvEngine, kvFds, kvRb, kvLast>>

apiVars == <<kvNote, kvFile, kvPend>>

ovVars == <<ovUpper, ovLower, ovDeleted, ovNote, ovCalls>>

mdVars == <<mdInode, mdNote>>

mtVars == <<mtMounts, mtNote>>

fdVars == <<fdMap, nextFd, fdClosing, fdEver, fdClosed, fdReused, fdNote>>

lsVars == <<lsNote>>

pfVars == <<pf, pfOps, pfNote>>

ffVars == <<ffCache, ffNote>>

faVars == <<faTree, faCall, faNote>>

kcVars == <<kcList, kcCache, kcOn, kcCall, kcNote>>

anVars == <<anStore, anNote>>

mfVars == <<mfSync, mfAsync, mfFd, mfArgs, mfSilent>>

btVars == <<btMounts, btPending, btNote>>

txVars == <<txn, txPhase, txBegin, txPre, txTouched>>

vars == <<mutexVars, mirrorVars, logVars, kvVars, apiVars, ovVars, txVars, mdVars, mtVars, fdVars, lsVars, pfVars, ffVars, faVars, kcVars, anVars, mfVars, btVars>>

\* What the steps of one part leave alone: the variables of the other parts.
mutexOthers == <<mirrorVars, logVars, kvVars, apiVars, ovVars, txVars, mdVars, mtVars, fdVars, lsVars, pfVars, ffVars, faVars, kcVars, anVars, mfVars, btVars>>

mirrorOthers == <<mutexVars, logVars, kvVars, apiVars, ovVars, txVars, mdVars, mtVars, fdVars, lsVars, pfVars, ffVars, faVars, kcVars, anVars, mfVars, btVars>>

logOthers == <<mutexVars, mirrorVars, kvVars, apiVars, ovVars, txVars, mdVars, mtVars, fdVars, lsVars, pfVars, ffVars, faVars, kcVars, anVars, mfVars, btVars>>

kvOthers == <<mutexVars, mirrorVars, logVars, apiVars, ovVars, txVars, mdVars, mtVars, fdVars, lsVars, pfVars, ffVars, faVars, kcVars, anVars, mfVars, btVars>>

apiOthers == <<mutexVars, mirrorVars, logVars, ovVars, txVars, mdVars, mtVars, fdVars, lsVars, pfVars, ffVars, faVars, kcVars, anVars, mfVars, btVars>>

ovOthers == <<mutexVars, mirrorVars, logVars, kvVars, apiVars, txVars, mdVars, mtVars, fdVars, lsVars, pfVars, ffVars, faVars, kcVars, anVars, mfVars, btVars>>

mdOthers == <<mutexVars, mirrorVars, logVars, kvVars, apiVars, ovVars, txVars, mtVars, fdVars, lsVars, pfVars, ffVars, faVars, kcVars, anVars, mfVars, btVars>>

mtOthers == <<mutexVars, mirrorVars, logVars, kvVars, apiVars, ovVars, mdVars, txVars, fdVars, lsVars, pfVars, ffVars, faVars, kcVars, anVars, mfVars, btVars>>

fdOthers == <<mutexVars, mirrorVars, logVars, kvVars, apiVars, ovVars, mdVars, mtVars, txVars, lsVars, pfVars, ffVars, faVars, kcVars, anVars, mfVars, btVars>>

lsOthers == <<mutexVars, mirrorVars, logVars, kvVars, apiVars, ovVars, mdVars, mtVars, fdVars, txVars, pfVars, ffVars, faVars, kcVars, anVars, mfVars, btVars>>

pfOthers == <<mutexVars, mirrorVars, logVars, kvVars, apiVars, ovVars, mdVars, mtVars, fdVars, lsVars, txVars, ffVars, faVars, kcVars, anVars, mfVars, btVars>>

ffOthers == <<mutexVars, mirrorVars, logVars, kvVars, apiVars, ovVars, mdVars, mtVars, fdVars, lsVars, pfVars, txVars, faVars, kcVars, anVars, mfVars, btVars>>

faOthers == <<mutexVars, mirrorVars, logVars, kvVars, apiVars, ovVars, mdVars, mtVars, fdVars, lsVars, pfVars, ffVars, txVars, kcVars, anVars, mfVars, btVars>>

kcOthers == <<mutexVars, mirrorVars, logVars, kvVars, apiVars, ovVars, mdVars, mtVars, fdVars, lsVars, pfVars, ffVars, faVars, txVars, anVars, mfVars, btVars>>

anOthers == <<mutexVars, mirrorVars, logVars, kvVars, apiVars, ovVars, mdVars, mtVars, fdVars, lsVars, pfVars, ffVars, faVars, kcVars, txVars, mfVars, btVars>>

mfOthers == <<mutexVars, mirrorVars, logVars, kvVars, apiVars, ovVars, mdVars, mtVars, fdVars, lsVars, pfVars, ffVars, faVars, kcVars, anVars, txVars, btVars>>

\* What the steps of AsyncMirror over its file leave alone besides the queue.
mfQueueOthers == <<mutexVars, logVars, kvVars, apiVars, ovVars, mdVars, mtVars, fdVars, lsVars, pfVars, ffVars, faVars, kcVars, anVars, txVars, btVars>>

btOthers == <<mutexVars, mirrorVars, logVars, kvVars, apiVars, ovVars, mdVars, mtVars, fdVars, lsVars, pfVars, ffVars, faVars, kcVars, anVars, mfVars, txVars>>

txOthers == <<mutexVars, mirrorVars, logVars, kvVars, apiVars, ovVars, mdVars, mtVars, fdVars, lsVars, pfVars, ffVars, faVars, kcVars, anVars, mfVars, btVars>>

NoPath == "-"

EmptyEntry == [has |-> FALSE, q |-> <<>>]

(***************************************************************************)
(* Mutex (src/unnamed/part_003)                                             *)
(***************************************************************************)
\* Mutant: a path counts as locked only while somebody waits for it.
isLocked_OnlyWithWaiters(p) == locks[p].q # <<>>

isLocked(p) == locks[p].has

\* The pending setTimeout callbacks that belong to waiters of path p.
TimersOn(p) == SelectSeq(timers, LAMBDA c : cpath[c] = p)

\* The calls currently executing inside the wrapped filesystem on path p.
InsideFs(p) == {c \in Calls : pc[c] = "inFs" /\ cpath[c] = p}

\* lock(path): the executor pushes the resolver when an entry exists, and
\* otherwise only inserts an empty queue; it never calls resolve itself.
MutexLock(c, p) ==
    /\ IF locks[p].has
          THEN /\ locks' = [locks EXCEPT ![p].q = Append(@, c)]
               /\ order' = [order EXCEPT ![p] = Append(@, c)]
               /\ UNCHANGED inserter
          ELSE /\ locks' = [locks EXCEPT ![p] = [has |-> TRUE, q |-> <<>>]]
               /\ inserter' = inserter \cup {c}
               /\ UNCHANGED order

\* Mutant: every waiter is released at once.
MutexUnlock_WakeAll(p) ==
    IF locks[p].q # <<>>
       THEN /\ timers' = timers \o locks[p].q
            /\ locks' = [locks EXCEPT ![p].q = <<>>]
       ELSE /\ locks' = [locks EXCEPT ![p] = EmptyEntry]
            /\ UNCHANGED timers

\* Mutant: the most recent waiter is taken (pop instead of shift).
MutexUnlock_Lifo(p) ==
    IF locks[p].q # <<>>
       THEN /\ timers' = Append(timers, locks[p].q[Len(locks[p].q)])
            /\ locks' = [locks EXCEPT ![p].q = SubSeq(@, 1, Len(@) - 1)]
       ELSE /\ locks' = [locks EXCEPT ![p] = EmptyEntry]
            /\ UNCHANGED timers

\* unlock(path) on a locked path: shift the next waiter and hand it to
\* setTimeout, or delete the entry when nobody waits.
MutexUnlock(p) ==
    IF locks[p].q # <<>>
       THEN /\ timers' = Append(timers, Head(locks[p].q))
            /\ locks' = [locks EXCEPT ![p].q = Tail(@)]
       ELSE /\ locks' = [locks EXCEPT ![p] = EmptyEntry]
            /\ UNCHANGED timers

\* tryLock(path) by a direct user of the mutex.
TryLock(p) ==
    /\ ~direct[p]
    /\ IF locks[p].has
          THEN UNCHANGED <<locks, direct>>
          ELSE /\ locks' = [locks EXCEPT ![p] = [has |-> TRUE, q |-> <<>>]]
               /\ direct' = [direct EXCEPT ![p] = TRUE]
    /\ UNCHANGED <<timers, pc, cpath, inserter, order, granted, late>>
    /\ UNCHANGED mutexOthers

\* The direct user releases a path it holds.
DirectUnlock(p) ==
    /\ direct[p]
    /\ MutexUnlock(p)
    /\ direct' = [direct EXCEPT ![p] = FALSE]
    /\ UNCHANGED <<pc, cpath, inserter, order, granted, late>>
    /\ UNCHANGED mutexOthers

\* unlock(path) of a path without entry throws and changes nothing.
UnlockUnlocked(p) ==
    /\ ~locks[p].has
    /\ UNCHANGED mutexVars
    /\ UNCHANGED mutexOthers

(***************************************************************************)
(* LockedFS async methods (src/dist/backends/Locked.js)                     *)
(***************************************************************************)
\* `await this._mu.lock(p)`: the call suspends on the promise lock returns.
LockedCallStart(c, p) ==
    /\ pc[c] = "new"
    /\ MutexLock(c, p)
    /\ pc' = [pc EXCEPT ![c] = "waiting"]
    /\ cpath' = [cpath EXCEPT ![c] = p]
    /\ late' = IF TimersOn(p) # <<>> THEN late \cup {c} ELSE late
    /\ UNCHANGED <<timers, direct, granted>>
    /\ UNCHANGED mutexOthers

\* The timer set by unlock fires: the resolver runs, the call resumes and
\* delegates to the wrapped filesystem.
TimerFire ==
    /\ timers # <<>>
    /\ LET c == Head(timers) IN
         /\ pc' = [pc EXCEPT ![c] = "inFs"]
         /\ granted' = [granted EXCEPT ![cpath[c]] = Append(@, c)]
    /\ timers' = Tail(timers)
    /\ UNCHANGED <<locks, cpath, direct, inserter, order, late>>
    /\ UNCHANGED mutexOthers

\* The wrapped operation fulfils: the method runs on to this._mu.unlock(p).
LockedCallReturn(c) ==
    /\ pc[c] = "inFs"
    /\ MutexUnlock(cpath[c])
    /\ pc' = [pc EXCEPT ![c] = "done"]
    /\ UNCHANGED <<cpath, direct, inserter, order, granted, late>>
    /\ UNCHANGED mutexOthers

\* The wrapped operation rejects: the await throws out of the method, and
\* the unlock statement after it is never reached.
LockedCallThrow(c) ==
    /\ pc[c] = "inFs"
    /\ pc' = [pc EXCEPT ![c] = "failed"]
    /\ UNCHANGED <<locks, timers, cpath, direct, inserter, order, granted, late>>
    /\ UNCHANGED mutexOthers

InitMutex ==
    /\ locks = [p \in MutexPaths |-> EmptyEntry]
    /\ timers = <<>>
    /\ pc = [c \in Calls |-> "new"]
    /\ cpath = [c \in Calls |-> NoPath]
    /\ direct = [p \in MutexPaths |-> FALSE]
    /\ inserter = {}
    /\ order = [p \in MutexPaths |-> <<>>]
    /\ granted = [p \in MutexPaths |-> <<>>]
    /\ late = {}

NextMutex ==
    \/ \E c \in Calls, p \in MutexPaths : LockedCallStart(c, p)
    \/ TimerFire
    \/ \E c \in Calls : LockedCallReturn(c)
    \/ \E c \in Calls : LockedCallThrow(c)
    \/ \E p \in MutexPaths : TryLock(p)
    \/ \E p \in MutexPaths : DirectUnlock(p)
    \/ \E p \in MutexPaths : UnlockUnlocked(p)


(***************************************************************************)
(* LockedFS synchronous methods (src/dist/backends/Locked.js)               *)
(***************************************************************************)
NoLsNote == [op |-> "none", p |-> NoPath, threw |-> FALSE, delegated |-> FALSE]

\* xSync(p, ...): `if (this._mu.isLocked(p)) throw new Error('invalid sync
\* call'); return this._fs.xSync(p, ...)`.  Every synchronous method has this
\* form; the two-path methods test their first path.  The mutex is only read.
LockedSyncCall(p) ==
    /\ lsNote' = [op |-> "sync", p |-> p,
                  threw |-> isLocked(p), delegated |-> ~isLocked(p)]
    /\ UNCHANGED lsOthers

InitLocked == lsNote = NoLsNote

NextLocked ==
    \/ NextMutex
    \/ \E p \in MutexPaths : LockedSyncCall(p)


(***************************************************************************)
(* AsyncMirror writer queue (src/dist/backends/FolderAdapter.js:240-402)    *)
(***************************************************************************)
\* The mutating sync methods; each mirrors itself under the same name,
\* MirrorFile.syncSync (through _syncSync) as writeFile.
MirrorMethods ==
    {"rename", "unlink", "rmdir", "mkdir", "chmod", "chown", "utimes", "writeFile"}

\* The async backend either returns a promise and ignores the completion
\* function appended to the arguments (every FileSystem of this repository:
\* their async methods take the fixed parameters only), or it calls that
\* function when the operation is over.
BackendStyles == {"promise", "callback"}

MirrorOps == [id : 1..MaxOps, m : MirrorMethods]

\* Mutant: the newest operation is taken (pop instead of shift).
doNextOp_Newest(q, running, fly) ==
    IF Len(q) > 0
       THEN /\ mq' = SubSeq(q, 1, Len(q) - 1)
            /\ msub' = Append(msub, q[Len(q)])
            /\ mfly' = fly \cup {q[Len(q)]}
            /\ mrun' = running
       ELSE /\ mrun' = FALSE
            /\ mq' = q
            /\ mfly' = fly
            /\ UNCHANGED msub

\* doNextOp() without error, with queue q, running flag and calls in
\* flight as they are when it is entered: shift the oldest operation,
\* append doNextOp to its arguments and call the async backend's method of
\* that name; with nothing queued, the writer goes idle.
doNextOp(q, running, fly) ==
    IF Len(q) > 0
       THEN /\ mq' = Tail(q)
            /\ msub' = Append(msub, Head(q))
            /\ mfly' = fly \cup {Head(q)}
            /\ mrun' = running
       ELSE /\ mrun' = FALSE
            /\ mq' = q
            /\ mfly' = fly
            /\ UNCHANGED msub

\* Mutant: the writer is started on every enqueue, running or not.
enqueueOp_AlwaysStart(op) ==
    doNextOp(Append(mq, op), TRUE, mfly)

\* enqueueOp(op): push, and unless the writer is running mark it running
\* and call doNextOp().
enqueueOp(op) ==
    IF ~mrun
       THEN doNextOp(Append(mq, op), TRUE, mfly)
       ELSE /\ mq' = Append(mq, op)
            /\ UNCHANGED <<mrun, msub, mfly>>

\* A mutating sync method: the call on the sync backend returns, then the
\* mirror operation is enqueued.
MirrorSyncCall(m) ==
    /\ Len(msync) < MaxOps
    /\ LET op == [id |-> Len(msync) + 1, m |-> m] IN
         /\ msync' = Append(msync, op)
         /\ enqueueOp(op)
    /\ UNCHANGED <<mstyle, mdone, mfailed>>
    /\ UNCHANGED mirrorOthers

\* A mutating sync method whose call on the sync backend throws: the
\* exception leaves the method before enqueueOp.
MirrorSyncThrows(m) ==
    /\ m \in MirrorMethods
    /\ UNCHANGED mirrorVars
    /\ UNCHANGED mirrorOthers

\* The async backend finishes an operation successfully.  A promise backend
\* resolves the promise nobody looks at; a callback backend calls doNextOp().
AsyncFulfil(op) ==
    /\ op \in mfly
    /\ mdone' = mdone \cup {op}
    /\ IF mstyle = "callback"
          THEN doNextOp(mq, mrun, mfly \ {op})
          ELSE /\ mfly' = mfly \ {op}
               /\ UNCHANGED <<mq, mrun, msub>>
    /\ UNCHANGED <<mstyle, msync, mfailed>>
    /\ UNCHANGED mirrorOthers

\* The async backend fails an operation.  A callback backend calls
\* doNextOp(err), which throws before touching the queue.
AsyncReject(op) ==
    /\ op \in mfly
    /\ mfly' = mfly \ {op}
    /\ mfailed' = TRUE
    /\ UNCHANGED <<mq, mrun, mstyle, msync, msub, mdone>>
    /\ UNCHANGED mirrorOthers

InitMirror ==
    /\ mq = <<>>
    /\ mrun = FALSE
    /\ mstyle \in BackendStyles
    /\ msync = <<>>
    /\ msub = <<>>
    /\ mfly = {}
    /\ mdone = {}
    /\ mfailed = FALSE

NextMirror ==
    \/ \E m \in MirrorMethods : MirrorSyncCall(m)
    \/ \E m \in MirrorMethods : MirrorSyncThrows(m)
    \/ \E op \in MirrorOps : AsyncFulfil(op)
    \/ \E op \in MirrorOps : AsyncReject(op)


(***************************************************************************)
(* OverlayFS deletion log (src/dist/backends/OverlayFS.js)                  *)
(***************************************************************************)
\* The paths of the lower layer that unlink and rmdir can mark deleted.
LowerPaths == 1..MaxLowerPaths

\* The line `d${p}\n` that deletePath appends.
DeletedLine(p) == [c |-> "d", p |-> p]

\* _reparseDeletionLog: for each line, _deletedFiles[line.slice(1)] is
\* line.slice(0, 1) === 'd'; the paths that end up true, the last line of
\* a path deciding.
ReparseDeletionLog(lines) ==
    {p \in LowerPaths :
        \E i \in 1..Len(lines) :
            /\ lines[i].p = p
            /\ lines[i].c = "d"
            /\ \A j \in (i + 1)..Len(lines) : lines[j].p # p}

\* updateLog(addition) entered with the given field values: the fields
\* afterwards, and whether writeFile was called with the new log.
updateLog(log, pend, need, addition) ==
    IF pend
       THEN [log |-> log \o addition, pend |-> TRUE, need |-> TRUE, write |-> FALSE]
       ELSE [log |-> log \o addition, pend |-> TRUE, need |-> need, write |-> TRUE]

\* The writeFile call updateLog makes: the encoded log of that moment.
NewWrite(log) == [data |-> log, st |-> "writing"]

\* checkInitialized() of an initialized overlay: a latched deletion-log
\* error is cleared and thrown.
checkInitialized ==
    /\ derr
    /\ derr' = FALSE
    /\ UNCHANGED <<dlog, ddel, dpend, dneed, ddisk, dw, dfailed>>
    /\ UNCHANGED logOthers

\* unlink(p) / rmdir(p) of a path that is still visible from the lower
\* layer: checkInitialized passes, then deletePath(p).
deletePath(p) ==
    /\ ~derr
    /\ p \notin ddel
    /\ ddel' = ddel \cup {p}
    /\ LET u == updateLog(dlog, dpend, dneed, <<DeletedLine(p)>>) IN
         /\ dlog' = u.log
         /\ dpend' = u.pend
         /\ dneed' = u.need
         /\ dw' = IF u.write THEN Append(dw, NewWrite(u.log)) ELSE dw
    /\ UNCHANGED <<derr, ddisk, dfailed>>
    /\ UNCHANGED logOthers

RemoveAt(q, i) == SubSeq(q, 1, i - 1) \o SubSeq(q, i + 1, Len(q))

\* The writable layer completes writeFile: the file holds the written log.
LogWriteFulfil(i) ==
    /\ i \in 1..Len(dw)
    /\ dw[i].st = "writing"
    /\ ddisk' = dw[i].data
    /\ dw' = [dw EXCEPT ![i].st = "then"]
    /\ UNCHANGED <<dlog, ddel, dpend, dneed, derr, dfailed>>
    /\ UNCHANGED logOthers

\* The writable layer fails writeFile.
LogWriteReject(i) ==
    /\ i \in 1..Len(dw)
    /\ dw[i].st = "writing"
    /\ dw' = [dw EXCEPT ![i].st = "catch"]
    /\ dfailed' = TRUE
    /\ UNCHANGED <<dlog, ddel, dpend, dneed, derr, ddisk>>
    /\ UNCHANGED logOthers

\* The .then() callback: if an update is needed, clear the flag and call
\* updateLog('').
LogThen(i) ==
    /\ i \in 1..Len(dw)
    /\ dw[i].st = "then"
    /\ IF dneed
          THEN LET u == updateLog(dlog, dpend, FALSE, <<>>) IN
                 /\ dlog' = u.log
                 /\ dpend' = u.pend
                 /\ dneed' = u.need
                 /\ dw' = IF u.write
                             THEN Append([dw EXCEPT ![i].st = "finally"], NewWrite(u.log))
                             ELSE [dw EXCEPT ![i].st = "finally"]
          ELSE /\ dw' = [dw EXCEPT ![i].st = "finally"]
               /\ UNCHANGED <<dlog, dpend, dneed>>
    /\ UNCHANGED <<ddel, derr, ddisk, dfailed>>
    /\ UNCHANGED logOthers

\* The .catch() callback latches the error.
LogCatch(i) ==
    /\ i \in 1..Len(dw)
    /\ dw[i].st = "catch"
    /\ derr' = TRUE
    /\ dw' = [dw EXCEPT ![i].st = "finally"]
    /\ UNCHANGED <<dlog, ddel, dpend, dneed, ddisk, dfailed>>
    /\ UNCHANGED logOthers

\* The .finally() callback clears the pending flag; the chain is over.
LogFinally(i) ==
    /\ i \in 1..Len(dw)
    /\ dw[i].st = "finally"
    /\ dpend' = FALSE
    /\ dw' = RemoveAt(dw, i)
    /\ UNCHANGED <<dlog, ddel, dneed, derr, ddisk, dfailed>>
    /\ UNCHANGED logOthers

\* A new overlay over the same writable layer (a restart): the constructor
\* and _initialize, which reads the log file and reparses it.
OverlayRestart ==
    /\ dw = <<>>
    /\ dlog' = ddisk
    /\ ddel' = ReparseDeletionLog(ddisk)
    /\ dpend' = FALSE
    /\ dneed' = FALSE
    /\ derr' = FALSE
    /\ dfailed' = FALSE
    /\ UNCHANGED ddisk
    /\ dw' = <<>>
    /\ UNCHANGED logOthers

InitLog ==
    /\ dlog = <<>>
    /\ ddel = {}
    /\ dpend = FALSE
    /\ dneed = FALSE
    /\ derr = FALSE
    /\ ddisk = <<>>
    /\ dw = <<>>
    /\ dfailed = FALSE

NextLog ==
    \/ \E p \in LowerPaths : deletePath(p)
    \/ checkInitialized
    \/ \E i \in 1..MaxLowerPaths : LogWriteFulfil(i)
    \/ \E i \in 1..MaxLowerPaths : LogWriteReject(i)
    \/ \E i \in 1..MaxLowerPaths : LogThen(i)
    \/ \E i \in 1..MaxLowerPaths : LogCatch(i)
    \/ \E i \in 1..MaxLowerPaths : LogFinally(i)
    \/ OverlayRestart

(***************************************************************************)
(* Key-value filesystem engine (src/dist/backends/SyncStore.js,             *)
(* src/dist/backends/AsyncStore.js, src/dist/filesystem.js)                 *)
(***************************************************************************)
Names == {"a", "b"}

\* A path is the sequence of its names: <<>> is "/", <<"a", "b">> is "/a/b".
KVPaths == {<<"a">>, <<"b">>, <<"a", "a">>, <<"a", "b">>}

dirname(p) == SubSeq(p, 1, Len(p) - 1)

basename(p) == p[Len(p)]

IsSubpath_ParentOnly(oldPath, newParent) == oldPath = newParent

\* oldPath is newParent or above it: (newParent + '/').indexOf(oldPath + '/') === 0
IsSubpath(oldPath, newParent) ==
    /\ Len(oldPath) <= Len(newParent)
    /\ SubSeq(newParent, 1, Len(oldPath)) = oldPath

\* ROOT_NODE_ID, the key of the root inode.
RootId == 1

\* What a directory listing yields for a name it does not hold.
NoId == 0

\* The keys of the store: the root id and the ids randomUUID may return.
Keys == 1..MaxIds

\* File contents: 0 is the empty byte array, the others are one byte long.
FileData == 0..MaxData

KVEngines == {"sync", "async"}

NoEnts == [n \in Names |-> NoId]

\* store.get(key) === undefined
Absent == [k |-> "none", id |-> NoId, dir |-> FALSE, size |-> 0, ents |-> NoEnts, d |-> 0]

\* inode.serialize(): the data key, the type bits of the mode, the size.
InodeVal(id, dir, size) ==
    [k |-> "inode", id |-> id, dir |-> dir, size |-> size, ents |-> NoEnts, d |-> 0]

\* encode(JSON.stringify(listing))
ListVal(ents) ==
    [k |-> "list", id |-> NoId, dir |-> FALSE, size |-> 0, ents |-> ents, d |-> 0]

\* The bytes of a file.
DataVal(d) ==
    [k |-> "data", id |-> NoId, dir |-> FALSE, size |-> 0, ents |-> NoEnts, d |-> d]

\* data.length: '{}' is two bytes long and every entry makes the text longer.
BlobLength(v) ==
    IF v.k = "list"
       THEN 2 + Cardinality({n \in Names : v.ents[n] # NoId})
       ELSE IF v.k = "data" /\ v.d # 0 THEN 1 ELSE 0

Range(q) == {q[i] : i \in 1..Len(q)}

Min(S) == CHOOSE x \in S : \A y \in S : x <= y

(***************************************************************************)
(* SimpleSyncRWTransaction over a store (SyncStore.js:12-82)                *)
(***************************************************************************)
NewTx(st) ==
    [st |-> st, orig |-> [k \in Keys |-> Absent], has |-> {}, mod |-> <<>>]

stashOldValue_Latest(tx, key, value) ==
    [tx EXCEPT !.orig[key] = value, !.has = @ \cup {key}]

stashOldValue(tx, key, value) ==
    IF key \in tx.has
       THEN tx
       ELSE [tx EXCEPT !.orig[key] = value, !.has = @ \cup {key}]

TxGet(tx, key) == stashOldValue(tx, key, tx.st[key])

RECURSIVE TxGetAll(_, _)
TxGetAll(tx, keys) ==
    IF keys = {}
       THEN tx
       ELSE TxGetAll(TxGet(tx, Min(keys)), keys \ {Min(keys)})

markModified(tx, key) ==
    IF key \in Range(tx.mod)
       THEN tx
       ELSE stashOldValue([tx EXCEPT !.mod = Append(@, key)], key, tx.st[key])

\* InMemoryStore.put: nothing is written when !overwrite and the key exists.
TxPut(tx, key, data, overwrite) ==
    LET t == markModified(tx, key) IN
    IF ~overwrite /\ t.st[key] # Absent
       THEN t
       ELSE [t EXCEPT !.st[key] = data]

TxDel(tx, key) ==
    LET t == markModified(tx, key) IN [t EXCEPT !.st[key] = Absent]

\* abort() run against a store: every modified key gets its stashed value
\* back, or is deleted when the stash holds no value.
RECURSIVE Rollback(_, _, _)
Rollback(st, orig, mod) ==
    IF mod = <<>>
       THEN st
       ELSE LET key == Head(mod)
                value == orig[key]
            IN Rollback(IF value = Absent
                           THEN [st EXCEPT ![key] = Absent]
                           ELSE [st EXCEPT ![key] = value],
                        orig, Tail(mod))

TxAbort(tx) == Rollback(tx.st, tx.orig, tx.mod)

(***************************************************************************)
(* Path lookup                                                              *)
(***************************************************************************)
Found(id, node, read) == [err |-> "ok", id |-> id, node |-> node, read |-> read]

NotFound(e, read) == [err |-> e, id |-> NoId, node |-> Absent, read |-> read]

getINode(st, id, read) ==
    IF st[id] = Absent
       THEN NotFound("ENOENT", read \cup {id})
       ELSE Found(id, st[id], read \cup {id})

\* getDirListing: ENOTDIR for a file inode, an error when the data is
\* missing or is no JSON text of a listing (the sync engine lets the
\* SyntaxError of JSON.parse through).
getDirListing(st, inode) ==
    IF ~inode.dir
       THEN [err |-> "ENOTDIR", ents |-> NoEnts]
       ELSE IF st[inode.id].k = "list"
               THEN [err |-> "ok", ents |-> st[inode.id].ents]
               ELSE IF st[inode.id] = Absent \/ kvEngine = "async"
                       THEN [err |-> "ENOENT", ents |-> NoEnts]
                       ELSE [err |-> "SyntaxError", ents |-> NoEnts]

\* findINode(tx, p): _findINode down from the root, then getINode.
RECURSIVE findINode(_, _)
findINode(st, p) ==
    IF p = <<>>
       THEN getINode(st, RootId, {})
       ELSE LET parent == findINode(st, dirname(p)) IN
            IF parent.err # "ok"
               THEN parent
               ELSE LET l == getDirListing(st, parent.node)
                        read == parent.read \cup
                                (IF parent.node.dir THEN {parent.node.id} ELSE {})
                    IN IF l.err # "ok"
                          THEN NotFound(l.err, read)
                          ELSE IF l.ents[basename(p)] = NoId
                                  THEN NotFound("ENOENT", read)
                                  ELSE getINode(st, l.ents[basename(p)], read)

(***************************************************************************)
(* The writes of one transaction                                            *)
(***************************************************************************)
\* tx.put(key, data, true)
Put(key, data) == [t |-> "put", key |-> key, data |-> data]

\* addNewNode(tx, data) with randomUUID() returning key
New(key, data) == [t |-> "new", key |-> key, data |-> data]

\* tx.del(key)
Del(key) == [t |-> "del", key |-> key, data |-> Absent]

\* What a call does once its checks are over: the error it throws before
\* any write, or the keys it has read and the writes it goes on to make.
Throws(e) == [err |-> e, read |-> {}, ws |-> <<>>]

Writes(read, ws) == [err |-> "ok", read |-> read, ws |-> ws]

ApplyWrite(tx, w) ==
    IF w.t = "del"
       THEN TxDel(tx, w.key)
       ELSE TxPut(tx, w.key, w.data, w.t = "put")

\* The writes in order; the store throws in write number failAt (0: never).
\* The sync addNewNode catches what put throws and rolls a new id, so there
\* the write goes through on the retry.
RECURSIVE RunWrites(_, _, _, _)
RunWrites(tx, ws, i, failAt) ==
    IF i > Len(ws)
       THEN [tx |-> tx, failed |-> FALSE]
       ELSE IF i = failAt /\ ~(kvEngine = "sync" /\ ws[i].t = "new")
               THEN [tx |-> markModified(tx, ws[i].key), failed |-> TRUE]
               ELSE RunWrites(ApplyWrite(tx, ws[i]), ws, i + 1, failAt)

NoRollback == [on |-> FALSE, orig |-> [k \in Keys |-> Absent], mod |-> <<>>]

\* One call from beginTransaction on.  A failed write is caught, the
\* transaction aborted and the error thrown again; where abort() is awaited
\* the rollback is over when the call ends, where it is not (lateAbort) the
\* call ends with the rollback still to come.
RunTx(st, c, failAt, lateAbort) ==
    IF c.err # "ok"
       THEN [st |-> st, err |-> c.err, rb |-> NoRollback]
       ELSE LET r == RunWrites(TxGetAll(NewTx(st), c.read), c.ws, 1, failAt) IN
            IF ~r.failed
               THEN [st |-> r.tx.st, err |-> "ok", rb |-> NoRollback]
               ELSE IF lateAbort
                       THEN [st |-> r.tx.st, err |-> "EIO",
                             rb |-> [on |-> TRUE, orig |-> r.tx.orig, mod |-> r.tx.mod]]
                       ELSE [st |-> TxAbort(r.tx), err |-> "EIO", rb |-> NoRollback]

\* The ids a value names: the data key of an inode, the entries of a listing.
IdsIn(v) == {v.id} \cup {v.ents[n] : n \in Names}

\* The ids randomUUID can return without a collision: not in the store, and
\* not named by anything in it.
FreeIds(st) ==
    {k \in Keys :
        /\ st[k] = Absent
        /\ \A j \in Keys : k \notin IdsIn(st[j])}

\* Two of them.  Ids are opaque, so the two least stand for any two.
FreshIds(st) == <<Min(FreeIds(st)), Min(FreeIds(st) \ {Min(FreeIds(st))})>>

(***************************************************************************)
(* The calls of the engine, each up to its first write                      *)
(***************************************************************************)
\* commitNewFile(tx, p, type, mode, cred, data), ids being what randomUUID
\* returns to its two addNewNode calls.
commitNewFile(st, p, isDir, acc, ids) ==
    LET parentNode == findINode(st, dirname(p)) IN
    IF parentNode.err # "ok"
       THEN Throws(parentNode.err)
       ELSE LET dirListing == getDirListing(st, parentNode.node) IN
            IF dirListing.err # "ok" THEN Throws(dirListing.err)
            ELSE IF ~acc THEN Throws("EACCES")
            ELSE IF p = <<>> THEN Throws("EEXIST")
            ELSE IF dirListing.ents[basename(p)] # NoId THEN Throws("EEXIST")
            ELSE LET data == IF isDir THEN ListVal(NoEnts) ELSE DataVal(0)
                     fileNode == InodeVal(ids[1], isDir, BlobLength(data))
                 IN Writes(parentNode.read \cup {parentNode.node.id},
                           <<New(ids[1], data),
                             New(ids[2], fileNode),
                             Put(parentNode.node.id,
                                 ListVal([dirListing.ents EXCEPT ![basename(p)] = ids[2]]))>>)

\* removeEntry(p, isDir, cred)
removeEntry(st, p, isDir, acc) ==
    LET parentNode == findINode(st, dirname(p)) IN
    IF parentNode.err # "ok"
       THEN Throws(parentNode.err)
       ELSE LET parentListing == getDirListing(st, parentNode.node) IN
            IF parentListing.err # "ok" THEN Throws(parentListing.err)
            ELSE IF parentListing.ents[basename(p)] = NoId THEN Throws("ENOENT")
            ELSE LET fileNodeId == parentListing.ents[basename(p)]
                     fileNode == getINode(st, fileNodeId, {})
                 IN IF fileNode.err # "ok" THEN Throws(fileNode.err)
                    ELSE IF ~acc THEN Throws("EACCES")
                    ELSE IF ~isDir /\ fileNode.node.dir THEN Throws("EISDIR")
                    ELSE IF isDir /\ ~fileNode.node.dir THEN Throws("ENOTDIR")
                    ELSE Writes(parentNode.read \cup {parentNode.node.id, fileNodeId},
                                <<Del(fileNode.node.id),
                                  Del(fileNodeId),
                                  Put(parentNode.node.id,
                                      ListVal([parentListing.ents EXCEPT ![basename(p)] = NoId]))>>)

\* rmdir(p, cred): readdir(p) first, ENOTEMPTY unless it is empty.
rmdir(st, p, acc) ==
    LET node == findINode(st, p) IN
    IF node.err # "ok" THEN Throws(node.err)
    ELSE IF ~acc THEN Throws("EACCES")
    ELSE LET list == getDirListing(st, node.node) IN
         IF list.err # "ok" THEN Throws(list.err)
         ELSE IF list.ents # NoEnts THEN Throws("ENOTEMPTY")
         ELSE removeEntry(st, p, TRUE, acc)

getNewDirList_Refetch(st, sameParent, oldDirList, newDirNode) ==
    getDirListing(st, newDirNode.node)

\* The listing rename adds the new name to: with one parent the listing
\* already fetched, which has lost the old name; else the new parent's.
getNewDirList(st, sameParent, oldDirList, newDirNode) ==
    IF sameParent THEN [err |-> "ok", ents |-> oldDirList]
                  ELSE getDirListing(st, newDirNode.node)

\* rename(oldPath, newPath, cred)
rename(st, oldPath, newPath, acc) ==
    LET oldDirNode == findINode(st, dirname(oldPath)) IN
    IF oldDirNode.err # "ok"
       THEN Throws(oldDirNode.err)
       ELSE
    LET oldDir == getDirListing(st, oldDirNode.node) IN
    IF oldDir.err # "ok" THEN Throws(oldDir.err)
    ELSE IF ~acc THEN Throws("EACCES")
    ELSE IF oldDir.ents[basename(oldPath)] = NoId THEN Throws("ENOENT")
    ELSE IF IsSubpath(oldPath, dirname(newPath)) THEN Throws("EBUSY")
    ELSE
    LET nodeId == oldDir.ents[basename(oldPath)]
        oldDirList == [oldDir.ents EXCEPT ![basename(oldPath)] = NoId]
        sameParent == dirname(newPath) = dirname(oldPath)
        newDirNode == IF sameParent THEN oldDirNode
                                    ELSE findINode(st, dirname(newPath))
    IN
    IF newDirNode.err # "ok"
       THEN Throws(newDirNode.err)
       ELSE
    LET newDir == getNewDirList(st, sameParent, oldDirList, newDirNode)
    IN
    IF newDir.err # "ok"
       THEN Throws(newDir.err)
       ELSE
    LET there == newDir.ents[basename(newPath)]
        newNameNode == IF there = NoId THEN NotFound("ok", {})
                                       ELSE getINode(st, there, {})
        newDirList == [newDir.ents EXCEPT ![basename(newPath)] = nodeId]
        read == oldDirNode.read \cup newDirNode.read
                \cup {oldDirNode.node.id, newDirNode.node.id}
                \cup (IF there = NoId THEN {} ELSE {there})
        dels == IF there = NoId
                   THEN <<>>
                   ELSE <<Del(newNameNode.node.id), Del(there)>>
        \* With one parent the two listings are one object: both puts write
        \* the listing as it is after both changes.
        puts == <<Put(oldDirNode.node.id,
                      ListVal(IF sameParent THEN newDirList ELSE oldDirList)),
                  Put(newDirNode.node.id, ListVal(newDirList))>>
    IN
    IF newNameNode.err # "ok" THEN Throws(newNameNode.err)
    ELSE IF there # NoId /\ newNameNode.node.dir THEN Throws("EPERM")
    ELSE Writes(read, dels \o puts)

\* _sync(p, data, stats): stats carries the type bits and the size of the
\* handle; touched says that one of its times differs from the inode's.
_sync(st, p, data, isDir, touched) ==
    LET fileInode == findINode(st, p) IN
    IF fileInode.err # "ok"
       THEN Throws(fileInode.err)
       ELSE LET inodeChanged == \/ fileInode.node.size # BlobLength(data)
                                \/ fileInode.node.dir # isDir
                                \/ touched
            IN Writes(fileInode.read,
                      <<Put(fileInode.node.id, data)>> \o
                      (IF inodeChanged
                          THEN <<Put(fileInode.id,
                                     InodeVal(fileInode.node.id, isDir, BlobLength(data)))>>
                          ELSE <<>>))

\* openFile(p, flag, cred) with flag 'r+': the handle, or the error.
openFile(st, p, acc) ==
    LET node == findINode(st, p) IN
    IF node.err # "ok" THEN [err |-> node.err, dir |-> FALSE]
    ELSE IF ~acc THEN [err |-> "EACCES", dir |-> FALSE]
    ELSE IF st[node.node.id] = Absent THEN [err |-> "ENOENT", dir |-> FALSE]
    ELSE IF node.node.size # BlobLength(st[node.node.id])
            THEN [err |-> "Error", dir |-> FALSE]
            ELSE [err |-> "ok", dir |-> node.node.dir]

\* The CREATE_FILE branch of open / openSync, then write and close.
writeNewFile(st, p, d, acc, touched) ==
    LET parentStats == findINode(st, dirname(p)) IN
    IF parentStats.err # "ok"
       THEN [st |-> st, err |-> parentStats.err, rb |-> NoRollback]
       ELSE IF ~parentStats.node.dir
               THEN [st |-> st, err |-> "ENOTDIR", rb |-> NoRollback]
               ELSE LET c == RunTx(st, commitNewFile(st, p, FALSE, acc, FreshIds(st)), 0, FALSE) IN
                    IF c.err # "ok"
                       THEN c
                       ELSE RunTx(c.st, _sync(c.st, p, DataVal(d), FALSE, touched), 0, FALSE)

\* writeFileSync(p, d, 'w'): openSync unlinks an existing path and creates
\* the file again; writeSync; closeSync syncs.
writeFileSync(st, p, d, acc, touched) ==
    IF ~acc
       THEN [st |-> st, err |-> "EACCES", rb |-> NoRollback]
       ELSE IF findINode(st, p).err # "ok"
               THEN writeNewFile(st, p, d, acc, touched)
               ELSE LET u == RunTx(st, removeEntry(st, p, FALSE, acc), 0, FALSE) IN
                    IF u.err # "ok"
                       THEN u
                       ELSE writeNewFile(u.st, p, d, acc, touched)

\* writeFile(p, d, 'w'): open calls openFile on an existing path, truncates
\* the handle and syncs it; write; close syncs.
writeFile(st, p, d, acc, touched) ==
    LET stats == findINode(st, p) IN
    IF ~acc
       THEN [st |-> st, err |-> "EACCES", rb |-> NoRollback]
       ELSE IF stats.err # "ok" \/ st[stats.node.id] = Absent
               THEN writeNewFile(st, p, d, acc, touched)
               ELSE LET t == RunTx(st, _sync(st, p, DataVal(0), stats.node.dir, touched), 0, FALSE) IN
                    IF t.err # "ok"
                       THEN t
                       ELSE RunTx(t.st, _sync(t.st, p, DataVal(d), stats.node.dir, touched), 0, FALSE)

(***************************************************************************)
(* Steps of the engine                                                      *)
(***************************************************************************)
\* A call ends with result r; tx says that the call is one transaction.
\* Calls are made one at a time, and only once a rollback that the last call
\* left behind has happened.
KvDone(r, tx) ==
    /\ ~kvRb.on
    /\ kv' = r.st
    /\ kvRb' = r.rb
    /\ kvLast' = IF r.err = "ok"
                    THEN [failed |-> FALSE, same |-> TRUE, tx |-> FALSE]
                    ELSE [failed |-> TRUE, same |-> (r.st = kv), tx |-> tx]
    /\ UNCHANGED kvEngine
    /\ UNCHANGED kvOthers

\* commitNewFile's catch calls tx.abort() without awaiting it in the async
\* engine: the call may end before the rollback has happened.
AbortIsLate(lateAbort) == lateAbort /\ kvEngine = "async"

KvMkdir(p, acc, lateAbort) ==
    /\ Cardinality(FreeIds(kv)) >= 2
    /\ LET c == commitNewFile(kv, p, TRUE, acc, FreshIds(kv)) IN
         \E failAt \in 0..Len(c.ws) :
             KvDone(RunTx(kv, c, failAt, AbortIsLate(lateAbort)), TRUE)
    /\ UNCHANGED kvFds

KvCreateFile(p, acc, lateAbort) ==
    /\ Cardinality(FreeIds(kv)) >= 2
    /\ LET c == commitNewFile(kv, p, FALSE, acc, FreshIds(kv)) IN
         \E failAt \in 0..Len(c.ws) :
             KvDone(RunTx(kv, c, failAt, AbortIsLate(lateAbort)), TRUE)
    /\ UNCHANGED kvFds

KvUnlink(p, acc) ==
    /\ LET c == removeEntry(kv, p, FALSE, acc) IN
         \E failAt \in 0..Len(c.ws) : KvDone(RunTx(kv, c, failAt, FALSE), TRUE)
    /\ UNCHANGED kvFds

KvRmdir(p, acc) ==
    /\ LET c == rmdir(kv, p, acc) IN
         \E failAt \in 0..Len(c.ws) : KvDone(RunTx(kv, c, failAt, FALSE), TRUE)
    /\ UNCHANGED kvFds

KvRename(oldPath, newPath, acc) ==
    /\ LET c == rename(kv, oldPath, newPath, acc) IN
         \E failAt \in 0..Len(c.ws) : KvDone(RunTx(kv, c, failAt, FALSE), TRUE)
    /\ UNCHANGED kvFds

KvWriteFile(p, d, acc, touched) ==
    /\ findINode(kv, p).err = "ok" \/ Cardinality(FreeIds(kv)) >= 2
    /\ KvDone(IF kvEngine = "sync" THEN writeFileSync(kv, p, d, acc, touched)
                                   ELSE writeFile(kv, p, d, acc, touched),
              FALSE)
    /\ UNCHANGED kvFds

\* open(p, 'r+'): a handle with the type bits of the inode it found.
KvOpen(p, acc) ==
    /\ Cardinality(kvFds) < MaxFds
    /\ LET fd == openFile(kv, p, acc) IN
         /\ kvFds' = IF fd.err = "ok" THEN kvFds \cup {[p |-> p, dir |-> fd.dir]}
                                      ELSE kvFds
         /\ KvDone([st |-> kv, err |-> fd.err, rb |-> NoRollback], FALSE)

\* The handle's buffer has been rewritten to d: sync() of the dirty handle.
KvFdSync(h, d, touched) ==
    /\ h \in kvFds
    /\ LET c == _sync(kv, h.p, DataVal(d), h.dir, touched) IN
         \E failAt \in 0..Len(c.ws) : KvDone(RunTx(kv, c, failAt, FALSE), TRUE)
    /\ UNCHANGED kvFds

\* close() of a handle that is not dirty.
KvClose(h) ==
    /\ h \in kvFds
    /\ kvFds' = kvFds \ {h}
    /\ UNCHANGED <<kv, kvEngine, kvRb, kvLast>>
    /\ UNCHANGED kvOthers

\* The rollback of an abort() that was not awaited happens.
KvAbortCompletes ==
    /\ kvRb.on
    /\ kv' = Rollback(kv, kvRb.orig, kvRb.mod)
    /\ kvRb' = NoRollback
    /\ kvLast' = [failed |-> FALSE, same |-> TRUE, tx |-> FALSE]
    /\ UNCHANGED <<kvEngine, kvFds>>
    /\ UNCHANGED kvOthers

\* makeRootDirectory() on an empty store.
InitKV ==
    /\ kvEngine \in KVEngines
    /\ kv = [k \in Keys |->
                IF k = RootId THEN InodeVal(RootId + 1, TRUE, 4096)
                ELSE IF k = RootId + 1 THEN ListVal(NoEnts)
                ELSE Absent]
    /\ kvFds = {}
    /\ kvRb = NoRollback
    /\ kvLast = [failed |-> FALSE, same |-> TRUE, tx |-> FALSE]

NextKV ==
    \/ \E p \in KVPaths, acc \in BOOLEAN, lateAbort \in BOOLEAN : KvMkdir(p, acc, lateAbort)
    \/ \E p \in KVPaths, acc \in BOOLEAN, lateAbort \in BOOLEAN : KvCreateFile(p, acc, lateAbort)
    \/ \E p \in KVPaths, acc \in BOOLEAN : KvUnlink(p, acc)
    \/ \E p \in KVPaths, acc \in BOOLEAN : KvRmdir(p, acc)
    \/ \E p \in KVPaths, q \in KVPaths, acc \in BOOLEAN : KvRename(p, q, acc)
    \/ \E p \in KVPaths, d \in FileData, acc \in BOOLEAN, touched \in BOOLEAN :
           KvWriteFile(p, d, acc, touched)
    \/ \E p \in KVPaths, acc \in BOOLEAN : KvOpen(p, acc)
    \/ \E h \in kvFds, d \in FileData, touched \in BOOLEAN : KvFdSync(h, d, touched)
    \/ \E h \in kvFds : KvClose(h)
    \/ KvAbortCompletes

(***************************************************************************)
(* Files of the key-value filesystem: writeFile, readFile and one handle    *)
(* (filesystem.js, SyncStore.js:83-96, AsyncStore.js:101-115)               *)
(***************************************************************************)
NoStore == [k \in Keys |-> Absent]

\* No call yet.  Of a call the note keeps its name, paths and error, whether
\* the credentials gave access, and the store as it was before the call.
NoNote ==
    [op |-> "none", p |-> <<>>, q |-> <<>>, data |-> Absent, err |-> "ok",
     dirty |-> FALSE, acc |-> TRUE, before |-> NoStore, round |-> FALSE,
     origin |-> NoStore]

NoFile == [open |-> FALSE, p |-> <<>>, buf |-> Absent, dirty |-> FALSE, dir |-> FALSE]

NoPend == [on |-> FALSE, p |-> <<>>, data |-> Absent, dir |-> FALSE]

\* readFile(p, 'r') / readFileSync: open finds the path, openFile gets the
\* inode and its data, the PreloadFile constructor compares their sizes, and
\* the whole buffer is read.
readFile(st, p) ==
    LET node == findINode(st, p) IN
    IF node.err # "ok" THEN [err |-> "ENOENT", data |-> Absent]
    ELSE IF st[node.node.id] = Absent THEN [err |-> "ENOENT", data |-> Absent]
    ELSE IF node.node.size # BlobLength(st[node.node.id])
            THEN [err |-> "Error", data |-> Absent]
            ELSE [err |-> "ok", data |-> st[node.node.id]]

\* open(p, 'w') of the async engine: an existing path is opened, truncated
\* and synced; a missing one is created.  dir: the type bits of the handle.
openTruncate(st, p, touched) ==
    LET stats == findINode(st, p)
        parentStats == findINode(st, dirname(p))
    IN
    IF stats.err = "ok" /\ st[stats.node.id] # Absent
       THEN [dir |-> stats.node.dir,
             r |-> RunTx(st, _sync(st, p, DataVal(0), stats.node.dir, touched), 0, FALSE)]
       ELSE IF parentStats.err # "ok"
               THEN [dir |-> FALSE, r |-> [st |-> st, err |-> parentStats.err, rb |-> NoRollback]]
               ELSE IF ~parentStats.node.dir
                       THEN [dir |-> FALSE, r |-> [st |-> st, err |-> "ENOTDIR", rb |-> NoRollback]]
                       ELSE [dir |-> FALSE,
                             r |-> RunTx(st, commitNewFile(st, p, FALSE, TRUE, FreshIds(st)), 0, FALSE)]

\* A call of the filesystem has ended; note tells of a writeFile or a close.
FileDone(st, note) ==
    /\ kv' = st
    /\ kvNote' = note
    /\ UNCHANGED <<kvEngine, kvFds, kvRb, kvLast>>
    /\ UNCHANGED apiOthers

FileMkdir(p) ==
    /\ Cardinality(FreeIds(kv)) >= 2
    /\ LET r == RunTx(kv, commitNewFile(kv, p, TRUE, TRUE, FreshIds(kv)), 0, FALSE) IN
         FileDone(r.st, NoNote)
    /\ UNCHANGED <<kvFile, kvPend>>

FileUnlink(p) ==
    /\ LET r == RunTx(kv, removeEntry(kv, p, FALSE, TRUE), 0, FALSE) IN
         FileDone(r.st, NoNote)
    /\ UNCHANGED <<kvFile, kvPend>>

\* writeFileSync(p, d, 'w'): open, write, and closeSync syncs.
FileWriteFileSync(p, d, touched) ==
    /\ kvEngine = "sync"
    /\ findINode(kv, p).err = "ok" \/ Cardinality(FreeIds(kv)) >= 2
    /\ LET r == writeFileSync(kv, p, d, TRUE, touched) IN
         FileDone(r.st, [NoNote EXCEPT !.op = "writeFile", !.p = p,
                                       !.data = DataVal(d), !.err = r.err])
    /\ UNCHANGED <<kvFile, kvPend>>

\* writeFile(p, d, 'w'): open, write, and `await fd.close()`, where close()
\* calls sync() and returns: writeFile ends with the _sync still to come.
FileWriteFile(p, d, touched) ==
    /\ kvEngine = "async"
    /\ ~kvPend.on
    /\ findINode(kv, p).err = "ok" \/ Cardinality(FreeIds(kv)) >= 2
    /\ LET o == openTruncate(kv, p, touched) IN
         /\ FileDone(o.r.st, [NoNote EXCEPT !.op = "writeFile", !.p = p,
                                            !.data = DataVal(d), !.err = o.r.err])
         /\ kvPend' = IF o.r.err = "ok"
                         THEN [on |-> TRUE, p |-> p, data |-> DataVal(d), dir |-> o.dir]
                         ELSE kvPend
    /\ UNCHANGED kvFile

\* open(p, 'r+') / openSync(p, 'r+')
FileOpen(p) ==
    /\ ~kvFile.open
    /\ LET fd == openFile(kv, p, TRUE) IN
         /\ kvFile' = IF fd.err = "ok"
                         THEN [open |-> TRUE, p |-> p, buf |-> kv[findINode(kv, p).node.id],
                               dirty |-> FALSE, dir |-> fd.dir]
                         ELSE kvFile
         /\ FileDone(kv, NoNote)
    /\ UNCHANGED kvPend

\* write / truncate on the handle: its buffer becomes d and it is dirty.
FileWrite(d) ==
    /\ kvFile.open
    /\ kvFile' = [kvFile EXCEPT !.buf = DataVal(d), !.dirty = TRUE]
    /\ FileDone(kv, NoNote)
    /\ UNCHANGED kvPend

\* closeSync(): syncSync(), which calls _syncSync when the handle is dirty.
FileCloseSync(touched) ==
    /\ kvEngine = "sync"
    /\ kvFile.open
    /\ LET c == IF kvFile.dirty
                   THEN _sync(kv, kvFile.p, kvFile.buf, kvFile.dir, touched)
                   ELSE Writes({}, <<>>)
       IN \E failAt \in 0..Len(c.ws) :
              LET r == RunTx(kv, c, failAt, FALSE) IN
              /\ FileDone(r.st, [NoNote EXCEPT !.op = "close", !.p = kvFile.p,
                                               !.data = kvFile.buf, !.err = r.err,
                                               !.dirty = kvFile.dirty])
              /\ kvFile' = IF r.err = "ok" THEN NoFile ELSE kvFile
    /\ UNCHANGED kvPend

\* close() { this.sync(); }: sync() runs up to its `await this._fs._sync(..)`
\* and close() returns without waiting for it.
FileClose ==
    /\ kvEngine = "async"
    /\ kvFile.open
    /\ ~kvPend.on
    /\ kvPend' = IF kvFile.dirty
                    THEN [on |-> TRUE, p |-> kvFile.p, data |-> kvFile.buf, dir |-> kvFile.dir]
                    ELSE kvPend
    /\ kvFile' = NoFile
    /\ FileDone(kv, [NoNote EXCEPT !.op = "close", !.p = kvFile.p, !.data = kvFile.buf,
                                   !.dirty = kvFile.dirty])

\* The _sync that close() left behind runs; nobody sees what it throws.
FileSyncCompletes(touched) ==
    /\ kvPend.on
    /\ LET c == _sync(kv, kvPend.p, kvPend.data, kvPend.dir, touched) IN
         \E failAt \in 0..Len(c.ws) :
             kv' = RunTx(kv, c, failAt, FALSE).st
    /\ kvPend' = NoPend
    /\ UNCHANGED <<kvNote, kvFile>>
    /\ UNCHANGED <<kvEngine, kvFds, kvRb, kvLast>>
    /\ UNCHANGED apiOthers

InitApi ==
    /\ kvNote = NoNote
    /\ kvFile = NoFile
    /\ kvPend = NoPend

NextKVFile ==
    \/ \E p \in KVPaths : FileMkdir(p)
    \/ \E p \in KVPaths : FileUnlink(p)
    \/ \E p \in KVPaths, d \in FileData, touched \in BOOLEAN : FileWriteFileSync(p, d, touched)
    \/ \E p \in KVPaths, d \in FileData, touched \in BOOLEAN : FileWriteFile(p, d, touched)
    \/ \E p \in KVPaths : FileOpen(p)
    \/ \E d \in FileData : FileWrite(d)
    \/ \E touched \in BOOLEAN : FileCloseSync(touched)
    \/ FileClose
    \/ \E touched \in BOOLEAN : FileSyncCompletes(touched)

(***************************************************************************)
(* The tree of the key-value filesystem: mkdir, createFile, unlink, rmdir   *)
(* and rename with no failing store (SyncStore.js, AsyncStore.js)           *)
(***************************************************************************)
\* One path below the others, so that a rename can aim further down.
TreePaths == KVPaths \cup {<<"a", "a", "a">>}

TreeNote(op, p, q, acc, r) ==
    [NoNote EXCEPT !.op = op, !.p = p, !.q = q, !.acc = acc, !.err = r.err,
                   !.before = kv]

TreeDone(r, note) ==
    /\ kv' = r.st
    /\ kvNote' = note
    /\ UNCHANGED <<kvFile, kvPend>>
    /\ UNCHANGED <<kvEngine, kvFds, kvRb, kvLast>>
    /\ UNCHANGED apiOthers

TreeMkdir(p, acc) ==
    /\ Cardinality(FreeIds(kv)) >= 2
    /\ LET r == RunTx(kv, commitNewFile(kv, p, TRUE, acc, FreshIds(kv)), 0, FALSE) IN
         TreeDone(r, TreeNote("mkdir", p, p, acc, r))

TreeCreateFile(p, acc) ==
    /\ Cardinality(FreeIds(kv)) >= 2
    /\ LET r == RunTx(kv, commitNewFile(kv, p, FALSE, acc, FreshIds(kv)), 0, FALSE) IN
         TreeDone(r, TreeNote("createFile", p, p, acc, r))

TreeUnlink(p, acc) ==
    LET r == RunTx(kv, removeEntry(kv, p, FALSE, acc), 0, FALSE) IN
    TreeDone(r, TreeNote("unlink", p, p, acc, r))

TreeRmdir(p, acc) ==
    LET r == RunTx(kv, rmdir(kv, p, acc), 0, FALSE) IN
    TreeDone(r, TreeNote("rmdir", p, p, acc, r))

\* rename(oldPath, newPath).  round: it succeeded and undoes the successful
\* rename(newPath, oldPath) in one directory that was the call before it;
\* origin is then the store before that first rename.
TreeRename(oldPath, newPath, acc) ==
    LET r == RunTx(kv, rename(kv, oldPath, newPath, acc), 0, FALSE)
        round == /\ r.err = "ok"
                 /\ kvNote.op = "rename" /\ kvNote.err = "ok"
                 /\ kvNote.p = newPath /\ kvNote.q = oldPath
                 /\ dirname(oldPath) = dirname(newPath)
    IN TreeDone(r, [TreeNote("rename", oldPath, newPath, acc, r) EXCEPT
                       !.round = round,
                       !.origin = IF round THEN kvNote.before ELSE NoStore])

NextKVTree ==
    \/ \E p \in TreePaths \cup {<<>>}, acc \in BOOLEAN : TreeMkdir(p, acc)
    \/ \E p \in TreePaths, acc \in BOOLEAN : TreeCreateFile(p, acc)
    \/ \E p \in TreePaths, acc \in BOOLEAN : TreeUnlink(p, acc)
    \/ \E p \in TreePaths, acc \in BOOLEAN : TreeRmdir(p, acc)
    \/ \E p \in TreePaths, q \in TreePaths, acc \in BOOLEAN : TreeRename(p, q, acc)

(***************************************************************************)
(* The two layers of the overlay, each a tree of files and directories      *)
(* (the calls UnlockedOverlayFS makes on _writable and _readable)           *)
(***************************************************************************)
OvPaths ==
    {<<"f">>, <<"d">>, <<"d", "f">>, <<"d", "s">>, <<"e">>, <<"e", "f">>, <<"e", "s">>}

OvAll == OvPaths \cup {<<>>}

\* The permission bits of a mode; "w" stands for the bits of 0o222.
ReadOnly == {"r"}

NoNode == [t |-> "none", d |-> "", perm |-> {}]

FileNode(d, perm) == [t |-> "file", d |-> d, perm |-> perm]

DirNode(perm) == [t |-> "dir", d |-> "", perm |-> perm]

FsOk(fs) == [fs |-> fs, err |-> "ok"]

FsErr(fs, e) == [fs |-> fs, err |-> e]

\* existsSync(p): statSync(p) does not throw.
FsExists(fs, p) == fs[p].t # "none"

FsNames(fs, p) == {basename(q) : q \in {c \in OvPaths : dirname(c) = p /\ FsExists(fs, c)}}

FsReaddir(fs, p) ==
    IF ~FsExists(fs, p) THEN [err |-> "ENOENT", names |-> {}]
    ELSE IF fs[p].t # "dir" THEN [err |-> "ENOTDIR", names |-> {}]
    ELSE [err |-> "ok", names |-> FsNames(fs, p)]

FsUnlink(fs, p) ==
    IF ~FsExists(fs, p) THEN FsErr(fs, "ENOENT")
    ELSE IF fs[p].t = "dir" THEN FsErr(fs, "EISDIR")
    ELSE FsOk([fs EXCEPT ![p] = NoNode])

FsRmdir(fs, p) ==
    IF ~FsExists(fs, p) THEN FsErr(fs, "ENOENT")
    ELSE IF fs[p].t # "dir" THEN FsErr(fs, "ENOTDIR")
    ELSE IF FsNames(fs, p) # {} THEN FsErr(fs, "ENOTEMPTY")
    ELSE FsOk([fs EXCEPT ![p] = NoNode])

FsMkdir(fs, p, perm) ==
    IF ~FsExists(fs, dirname(p)) THEN FsErr(fs, "ENOENT")
    ELSE IF fs[dirname(p)].t # "dir" THEN FsErr(fs, "ENOTDIR")
    ELSE IF FsExists(fs, p) THEN FsErr(fs, "EEXIST")
    ELSE FsOk([fs EXCEPT ![p] = DirNode(perm)])

\* writeFileSync(p, d, 'w', mode): openSync unlinks an existing file and
\* creates it again with its old mode, or creates a new file with mode.
FsWriteFile(fs, p, d, perm) ==
    IF FsExists(fs, p)
       THEN IF fs[p].t = "dir" THEN FsErr(fs, "EISDIR")
                               ELSE FsOk([fs EXCEPT ![p] = FileNode(d, fs[p].perm)])
       ELSE IF ~FsExists(fs, dirname(p)) THEN FsErr(fs, "ENOENT")
       ELSE IF fs[dirname(p)].t # "dir" THEN FsErr(fs, "ENOTDIR")
       ELSE FsOk([fs EXCEPT ![p] = FileNode(d, perm)])

\* chmodSync(p, mode) of a layer that supports properties.
FsChmod(fs, p, perm) ==
    IF ~FsExists(fs, p) THEN FsErr(fs, "ENOENT")
    ELSE FsOk([fs EXCEPT ![p].perm = perm])

\* q is p or below p.
IsUnder(q, p) == Len(p) <= Len(q) /\ SubSeq(q, 1, Len(p)) = p

\* q, which is under old, as it is called once old is called new.
Rebase(q, old, new) == new \o SubSeq(q, Len(old) + 1, Len(q))

\* renameSync(old, new) of a layer: the node old moves, with all below it.
FsRename(fs, old, new) ==
    IF ~FsExists(fs, old) THEN FsErr(fs, "ENOENT")
    ELSE IF IsSubpath(old, dirname(new)) THEN FsErr(fs, "EBUSY")
    ELSE IF ~FsExists(fs, dirname(new)) THEN FsErr(fs, "ENOENT")
    ELSE IF fs[dirname(new)].t # "dir" THEN FsErr(fs, "ENOTDIR")
    ELSE IF fs[new].t = "dir" /\ old # new THEN FsErr(fs, "EPERM")
    ELSE FsOk([q \in OvAll |->
                 IF IsUnder(q, new) /\ q # <<>>
                    THEN (IF \E o \in OvAll : IsUnder(o, old) /\ Rebase(o, old, new) = q
                             THEN fs[CHOOSE o \in OvAll :
                                        IsUnder(o, old) /\ Rebase(o, old, new) = q]
                             ELSE NoNode)
                    ELSE IF IsUnder(q, old) THEN NoNode
                    ELSE fs[q]])

(***************************************************************************)
(* UnlockedOverlayFS (src/dist/backends/OverlayFS.js).  o is the state of   *)
(* the overlay: o.up the writable tree, o.lo the readable tree, o.del the   *)
(* deleted paths.  form is "sync" for the ...Sync methods, "async" for the  *)
(* promise-returning ones.                                                  *)
(***************************************************************************)
OvForms == {"sync", "async"}

OvOk(o) == [o |-> o, err |-> "ok"]

OvErr(o, e) == [o |-> o, err |-> e]

\* makeModeWritable(mode): 0o222 | mode
makeModeWritable(perm) == perm \cup {"w"}

\* exists(p) / existsSync(p)
OverlayExists(o, p) ==
    FsExists(o.up, p) \/ (FsExists(o.lo, p) /\ p \notin o.del)

\* statSync(p), and stat(p): there `return this._writable.stat(p, cred)`
\* stands in the try block without await, so that a rejection of the
\* writable layer's promise is the result and the catch block never runs.
OverlayStat(form, o, p) ==
    IF FsExists(o.up, p) THEN [err |-> "ok", node |-> o.up[p]]
    ELSE IF form = "async" THEN [err |-> "ENOENT", node |-> NoNode]
    ELSE IF p \in o.del THEN [err |-> "ENOENT", node |-> NoNode]
    ELSE IF ~FsExists(o.lo, p) THEN [err |-> "ENOENT", node |-> NoNode]
    ELSE [err |-> "ok", node |-> [o.lo[p] EXCEPT !.perm = makeModeWritable(@)]]

\* The key readdir looks up in _deletedFiles for entry name of directory
\* p, `${p}/${name}`: for p = '/' that is '//name', which is no path.
DeletedKey(p, name) == IF p = <<>> THEN <<"", name>> ELSE Append(p, name)

\* readdir(p) / readdirSync(p)
OverlayReaddir(form, o, p) ==
    LET dirStats == OverlayStat(form, o, p)
        upper == FsReaddir(o.up, p)
        lower == FsReaddir(o.lo, p)
    IN
    IF dirStats.err # "ok" THEN [err |-> dirStats.err, names |-> {}]
    ELSE IF dirStats.node.t # "dir" THEN [err |-> "ENOTDIR", names |-> {}]
    ELSE [err |-> "ok",
          names |-> upper.names \cup {n \in lower.names : DeletedKey(p, n) \notin o.del}]

\* readFile(p, 'r') / readFileSync: open(p, 'r') reads from the writable
\* layer when p is there, else from the readable one.
OverlayReadFile(o, p) ==
    IF ~OverlayExists(o, p) THEN [err |-> "ENOENT", d |-> ""]
    ELSE LET node == IF FsExists(o.up, p) THEN o.up[p] ELSE o.lo[p] IN
         IF node.t = "dir" THEN [err |-> "EISDIR", d |-> ""]
                           ELSE [err |-> "ok", d |-> node.d]

MarkDeleted_OnReadable(o, p) == [o EXCEPT !.lo[p] = NoNode]

\* deletePath(p): _deletedFiles[p] = true (and the log is updated).
MarkDeleted(o, p) == [o EXCEPT !.del = @ \cup {p}]

\* createParentDirectories(p) / createParentDirectoriesAsync(p): the
\* parents missing on the writable layer are made there, topmost first,
\* each with the mode stat gives for it.
RECURSIVE createParentDirectories(_, _, _)
createParentDirectories(form, o, p) ==
    LET parent == dirname(p) IN
    IF FsExists(o.up, parent)
       THEN OvOk(o)
       ELSE LET above == createParentDirectories(form, o, parent) IN
            IF above.err # "ok"
               THEN above
               ELSE LET stats == OverlayStat(form, above.o, parent) IN
                    IF stats.err # "ok"
                       THEN OvErr(above.o, stats.err)
                       ELSE LET m == FsMkdir(above.o.up, parent, stats.node.perm) IN
                            [o |-> [above.o EXCEPT !.up = m.fs], err |-> m.err]

\* writeFile(p, d, 'w', mode) / writeFileSync: open makes the parents on the
\* writable layer and opens p there; write; close.  _syncSync and
\* _syncAsync of an OverlayFile do the same with the file's buffer.
OverlayWriteFile(form, o, p, d, perm) ==
    LET c == createParentDirectories(form, o, p) IN
    IF c.err # "ok"
       THEN c
       ELSE LET w == FsWriteFile(c.o.up, p, d, perm) IN
            [o |-> [c.o EXCEPT !.up = w.fs], err |-> w.err]

\* unlink(p) / unlinkSync(p)
OverlayUnlink(o, p) ==
    IF ~OverlayExists(o, p)
       THEN OvErr(o, "ENOENT")
       ELSE LET u == IF FsExists(o.up, p) THEN FsUnlink(o.up, p) ELSE FsOk(o.up)
                o1 == [o EXCEPT !.up = u.fs]
            IN IF u.err # "ok" THEN OvErr(o, u.err)
               ELSE IF OverlayExists(o1, p) THEN OvOk(MarkDeleted(o1, p))
               ELSE OvOk(o1)

\* rmdir(p) / rmdirSync(p)
OverlayRmdir(form, o, p) ==
    IF ~OverlayExists(o, p)
       THEN OvErr(o, "ENOENT")
       ELSE LET u == IF FsExists(o.up, p) THEN FsRmdir(o.up, p) ELSE FsOk(o.up)
                o1 == [o EXCEPT !.up = u.fs]
                list == OverlayReaddir(form, o1, p)
            IN IF u.err # "ok" THEN OvErr(o, u.err)
               ELSE IF ~OverlayExists(o1, p) THEN OvOk(o1)
               ELSE IF list.err # "ok" THEN OvErr(o1, list.err)
               ELSE IF list.names # {} THEN OvErr(o1, "ENOTEMPTY")
               ELSE OvOk(MarkDeleted(o1, p))

\* mkdir(p, mode) / mkdirSync
OverlayMkdir(form, o, p, perm) ==
    IF OverlayExists(o, p)
       THEN OvErr(o, "EEXIST")
       ELSE LET c == createParentDirectories(form, o, p) IN
            IF c.err # "ok"
               THEN c
               ELSE LET m == FsMkdir(c.o.up, p, perm) IN
                    [o |-> [c.o EXCEPT !.up = m.fs], err |-> m.err]

\* copyToWritable(p) / copyToWritableAsync(p)
copyToWritable(form, o, p) ==
    LET pStats == OverlayStat(form, o, p) IN
    IF pStats.err # "ok" THEN OvErr(o, pStats.err)
    ELSE IF pStats.node.t = "dir"
            THEN LET m == FsMkdir(o.up, p, pStats.node.perm) IN
                 [o |-> [o EXCEPT !.up = m.fs], err |-> m.err]
            ELSE OverlayWriteFile(form, o, p, o.lo[p].d, pStats.node.perm)

\* operateOnWritable(p) / operateOnWritableAsync(p)
operateOnWritable(form, o, p) ==
    IF ~OverlayExists(o, p) THEN OvErr(o, "ENOENT")
    ELSE IF ~FsExists(o.up, p) THEN copyToWritable(form, o, p)
    ELSE OvOk(o)

\* chmod(p, mode) / chmodSync
OverlayChmod(form, o, p, perm) ==
    LET w == operateOnWritable(form, o, p) IN
    IF w.err # "ok"
       THEN w
       ELSE LET c == FsChmod(w.o.up, p, perm) IN
            [o |-> [w.o EXCEPT !.up = c.fs], err |-> c.err]

\* chown(p, uid, gid) / chownSync: the owner is no part of a node here, so
\* that what shows of the call is what operateOnWritable does.
OverlayChown(form, o, p) == operateOnWritable(form, o, p)

\* utimes(p, atime, mtime) / utimesSync, likewise.
OverlayUtimes(form, o, p) == operateOnWritable(form, o, p)

\* rename(oldPath, newPath) / renameSync.  OverlayRenameAll renames the
\* entries names of the readable layer's oldPath one after the other.
RECURSIVE OverlayRename(_, _, _, _)
RECURSIVE OverlayRenameAll(_, _, _, _, _)
OverlayRenameAll(form, o, oldPath, newPath, names) ==
    IF names = {}
       THEN OvOk(o)
       ELSE LET name == CHOOSE n \in names : TRUE
                r == OverlayRename(form, o, Append(oldPath, name), Append(newPath, name))
            IN IF r.err # "ok"
                  THEN r
                  ELSE OverlayRenameAll(form, r.o, oldPath, newPath, names \ {name})

OverlayRename(form, o, oldPath, newPath) ==
    LET oldStats == OverlayStat(form, o, oldPath)
        newStats == OverlayStat(form, o, newPath)
        newList == OverlayReaddir(form, o, newPath)
        \* the directory branch, up to the entries of the readable layer
        moved ==
            IF OverlayExists(o, newPath) /\ newStats.err # "ok" THEN OvErr(o, newStats.err)
            ELSE IF OverlayExists(o, newPath) /\ newStats.node.t # "dir" THEN OvErr(o, "ENOTDIR")
            ELSE IF OverlayExists(o, newPath) /\ newList.err # "ok" THEN OvErr(o, newList.err)
            ELSE IF OverlayExists(o, newPath) /\ newList.names # {} THEN OvErr(o, "ENOTEMPTY")
            ELSE LET mode == IF OverlayExists(o, newPath) THEN newStats.node.perm
                                                         ELSE {"r", "w", "x"}
                     w == IF FsExists(o.up, oldPath) THEN FsRename(o.up, oldPath, newPath)
                          ELSE IF ~FsExists(o.up, newPath) THEN FsMkdir(o.up, newPath, mode)
                          ELSE FsOk(o.up)
                 IN [o |-> [o EXCEPT !.up = w.fs], err |-> w.err]
        body ==
            IF oldStats.node.t = "dir"
               THEN IF moved.err # "ok" THEN moved
                    ELSE IF FsExists(o.lo, oldPath)
                            THEN OverlayRenameAll(form, moved.o, oldPath, newPath,
                                                  FsReaddir(o.lo, oldPath).names)
                            ELSE moved
               ELSE IF OverlayExists(o, newPath) /\ newStats.err # "ok"
                       THEN OvErr(o, newStats.err)
                    ELSE IF OverlayExists(o, newPath) /\ newStats.node.t = "dir"
                       THEN OvErr(o, "EISDIR")
                    ELSE LET data == OverlayReadFile(o, oldPath) IN
                         IF data.err # "ok"
                            THEN OvErr(o, data.err)
                            ELSE OverlayWriteFile(form, o, newPath, data.d, oldStats.node.perm)
    IN
    IF oldStats.err # "ok" THEN OvErr(o, oldStats.err)
    ELSE IF oldStats.node.t = "dir" /\ oldPath = newPath THEN OvOk(o)
    ELSE IF body.err # "ok" THEN body
    ELSE IF oldPath # newPath /\ OverlayExists(body.o, oldPath)
            THEN OverlayUnlink(body.o, oldPath)
            ELSE body

(***************************************************************************)
(* The calls of the overlay.  The readable layer holds /f, /d, /d/f and     *)
(* /d/s, all read-only; the writable layer starts with its root alone.      *)
(***************************************************************************)
AllPerms == {"r", "w", "x"}

LowerTree ==
    [q \in OvAll |->
        IF q \in {<<>>, <<"d">>, <<"d", "s">>} THEN DirNode(ReadOnly)
        ELSE IF q \in {<<"f">>, <<"d", "f">>} THEN FileNode("lower", ReadOnly)
        ELSE NoNode]

EmptyTree == [q \in OvAll |-> IF q = <<>> THEN DirNode(AllPerms) ELSE NoNode]

Overlay == [up |-> ovUpper, lo |-> ovLower, del |-> ovDeleted]

\* p is on the readable layer alone: not on the writable one, not deleted.
LowerOnly(o, p) == FsExists(o.lo, p) /\ ~FsExists(o.up, p) /\ p \notin o.del

NoOvNote ==
    [op |-> "none", form |-> "sync", p |-> <<>>, q |-> <<>>, perm |-> {}, err |-> "ok",
     lowerOnly |-> FALSE]

\* The note of a call: what was called, with what, how it ended, and
\* whether p was on the readable layer alone when it was called.
OvNote(op, form, p, q, perm, err) ==
    [op |-> op, form |-> form, p |-> p, q |-> q, perm |-> perm, err |-> err,
     lowerOnly |-> LowerOnly(Overlay, p)]

OvDone(r, note) ==
    /\ ovCalls < MaxOvCalls
    /\ ovCalls' = ovCalls + 1
    /\ ovUpper' = r.o.up
    /\ ovLower' = r.o.lo
    /\ ovDeleted' = r.o.del
    /\ ovNote' = note
    /\ UNCHANGED ovOthers

OvUnlink(form, p) ==
    LET r == OverlayUnlink(Overlay, p) IN
    OvDone(r, OvNote("unlink", form, p, <<>>, {}, r.err))

OvRmdir(form, p) ==
    LET r == OverlayRmdir(form, Overlay, p) IN
    OvDone(r, OvNote("rmdir", form, p, <<>>, {}, r.err))

OvMkdir(form, p) ==
    OvDone(OverlayMkdir(form, Overlay, p, AllPerms), NoOvNote)

OvWriteFile(form, p) ==
    OvDone(OverlayWriteFile(form, Overlay, p, "written", {"r", "w"}), NoOvNote)

OvChmod(form, p, perm) ==
    LET r == OverlayChmod(form, Overlay, p, perm) IN
    OvDone(r, OvNote("chmod", form, p, <<>>, perm, r.err))

OvChown(form, p) ==
    OvDone(OverlayChown(form, Overlay, p), NoOvNote)

OvUtimes(form, p) ==
    OvDone(OverlayUtimes(form, Overlay, p), NoOvNote)

\* The paths below oldPath have their places below newPath.
RenameClosed(oldPath, newPath) ==
    \A q \in OvAll : IsUnder(q, oldPath) => Rebase(q, oldPath, newPath) \in OvAll

OvRename(form, oldPath, newPath) ==
    /\ RenameClosed(oldPath, newPath)
    /\ LET r == OverlayRename(form, Overlay, oldPath, newPath) IN
       OvDone(r, OvNote("rename", form, oldPath, newPath, {}, r.err))

InitOverlay ==
    /\ ovUpper = EmptyTree
    /\ ovLower = LowerTree
    /\ ovDeleted = {}
    /\ ovNote = NoOvNote
    /\ ovCalls = 0

NextOverlay ==
    \/ \E form \in OvForms, p \in OvPaths : OvUnlink(form, p)
    \/ \E form \in OvForms, p \in OvPaths : OvRmdir(form, p)
    \/ \E form \in OvForms, p \in OvPaths : OvMkdir(form, p)
    \/ \E form \in OvForms, p \in OvPaths : OvWriteFile(form, p)
    \/ \E form \in OvForms, p \in OvPaths : OvChmod(form, p, {"r", "x"})
    \/ \E form \in OvForms, p \in OvPaths : OvChown(form, p)
    \/ \E form \in OvForms, p \in OvPaths : OvUtimes(form, p)
    \/ \E form \in OvForms, oldPath \in OvPaths, newPath \in OvPaths :
          OvRename(form, oldPath, newPath)

(***************************************************************************)
(* Modes and owners: Stats.hasAccess and chown (src/unnamed/part_012), the  *)
(* access check of commitNewFile, Inode.update (src/unnamed/part_006)       *)
(***************************************************************************)
\* a & b
RECURSIVE BitAnd(_, _)
BitAnd(a, b) ==
    IF a = 0 \/ b = 0 THEN 0
    ELSE (a % 2) * (b % 2) + 2 * BitAnd(a \div 2, b \div 2)

\* a ^ b
RECURSIVE BitXor(_, _)
BitXor(a, b) ==
    IF a = 0 /\ b = 0 THEN 0
    ELSE ((a + b) % 2) + 2 * BitXor(a \div 2, b \div 2)

\* S_IFDIR, 0o040000
S_IFDIR == 16384

\* R_OK and W_OK of emulation/constants.js
R_OK == 4

W_OK == 2

\* What the sync commitNewFile passes to hasAccess: 0b0100
SyncCommitAccess == 4

\* uid, gid (euid and egid are the same)
Creds == [uid : 0..MaxUid, gid : 0..MaxUid]

\* 0o777, 0o755, 0o750, 0o700, 0o555, 0o333, 0o040, 0o000
MdModes == {511, 493, 488, 448, 365, 219, 32, 0}

\* Stats.hasAccess(mode, cred): perms is this.mode & ~S_IFMT
hasAccess(mode, stats, cred) ==
    LET perms == stats.mode % 4096
        uMode == IF cred.uid = stats.uid
                    THEN BitAnd(BitXor(mode, BitAnd(3840, perms) \div 256), mode)
                    ELSE 15
        gMode == IF cred.gid = stats.gid
                    THEN BitAnd(BitXor(mode, BitAnd(240, perms) \div 16), mode)
                    ELSE 15
        wMode == BitAnd(BitXor(mode, BitAnd(15, perms)), mode)
    IN
    IF cred.uid = 0 \/ cred.gid = 0
       THEN TRUE
       ELSE BitAnd(BitAnd(uMode, gMode), wMode) = 0

\* The access check of commitNewFile on the parent's stats, in each engine.
commitAccess(engine, parentStats, cred) ==
    hasAccess(IF engine = "sync" THEN SyncCommitAccess ELSE W_OK, parentStats, cred)

\* Stats.chown(uid, gid): a value is taken when it is an unsigned 32-bit one.
StatsChown(stats, uid, gid) ==
    [stats EXCEPT !.uid = IF uid >= 0 THEN uid ELSE @,
                  !.gid = IF gid >= 0 THEN gid ELSE @]

\* Stats.chmod(mode): (this.mode & S_IFMT) | mode
StatsChmod(stats, mode) ==
    [stats EXCEPT !.mode = (@ - (@ % 4096)) + mode]

\* Inode.update(stats) and, when it tells a change, the put of the inode:
\* mode is compared and copied, uid is compared and copied twice, gid never.
UpdateInode(inode, stats) ==
    [inode EXCEPT !.mode = stats.mode, !.uid = stats.uid]

NoMdNote ==
    [op |-> "none", cred |-> [uid |-> 0, gid |-> 0],
     uid |-> 0, gid |-> 0, props |-> FALSE, err |-> "ok", created |-> FALSE]

\* mkdir(p, mode, cred) by a caller that may: the directory looked at from
\* now on is the one made, with mode | S_IFDIR and the caller's uid and gid.
MdMkdir(mode, cred) ==
    /\ mdInode' = [mode |-> mode + S_IFDIR, uid |-> cred.uid, gid |-> cred.gid]
    /\ mdNote' = [NoMdNote EXCEPT !.op = "mkdir"]
    /\ UNCHANGED mdOthers

\* createFile or mkdir of a new name in the directory, by cred.  The entry
\* made is not kept: the next call finds the name free again.
MdCreate(isDir, cred) ==
    LET acc == commitAccess(kvEngine, mdInode, cred)
        r == RunTx(kv, commitNewFile(kv, <<"a">>, isDir, acc, FreshIds(kv)), 0, FALSE)
    IN
    /\ mdNote' = [NoMdNote EXCEPT !.op = "create", !.cred = cred,
                                  !.err = r.err, !.created = (r.st # kv)]
    /\ UNCHANGED mdInode
    /\ UNCHANGED mdOthers

\* chown(p, uid, gid) by root: openFile, PreloadFile.chownSync, _sync.
\* props is metadata.supportsProperties of the filesystem: false for the
\* classes of this repository, true for a subclass that declares it.
MdChown(props, uid, gid) ==
    LET stats == StatsChown(mdInode, uid, gid) IN
    /\ mdInode' = IF props THEN UpdateInode(mdInode, stats) ELSE mdInode
    /\ mdNote' = [NoMdNote EXCEPT !.op = "chown", !.uid = uid, !.gid = gid, !.props = props,
                                  !.err = IF props THEN "ok" ELSE "ENOTSUP"]
    /\ UNCHANGED mdOthers

\* chmod(p, mode) by root, likewise.
MdChmod(props, mode) ==
    LET stats == StatsChmod(mdInode, mode) IN
    /\ mdInode' = IF props THEN UpdateInode(mdInode, stats) ELSE mdInode
    /\ mdNote' = [NoMdNote EXCEPT !.op = "chmod", !.props = props,
                                  !.err = IF props THEN "ok" ELSE "ENOTSUP"]
    /\ UNCHANGED mdOthers

\* The root directory as makeRootDirectory makes it: 0o777 | S_IFDIR, 0, 0.
InitMeta ==
    /\ mdInode = [mode |-> 511 + S_IFDIR, uid |-> 0, gid |-> 0]
    /\ mdNote = NoMdNote

NextMeta ==
    \/ \E mode \in MdModes, cred \in Creds : MdMkdir(mode, cred)
    \/ \E isDir \in BOOLEAN, cred \in Creds : MdCreate(isDir, cred)
    \/ \E props \in BOOLEAN, uid \in -1..MaxUid, gid \in -1..MaxUid : MdChown(props, uid, gid)
    \/ \E props \in BOOLEAN, mode \in MdModes : MdChmod(props, mode)

(***************************************************************************)
(* Mounts and the top-level calls that look at them                         *)
(* (src/dist/emulation/shared.js, sync.js, promises.js).  A path is a       *)
(* string, that is the sequence of its characters.                          *)
(***************************************************************************)
Chars == {"/", "a", "b"}

Slash == <<"/">>

\* What normalizePath returns: absolute, no '//', no '/' at the end but for '/'.
IsNormalized(p) ==
    /\ p[1] = "/"
    /\ \A i \in 1..(Len(p) - 1) : ~(p[i] = "/" /\ p[i + 1] = "/")
    /\ Len(p) > 1 => p[Len(p)] # "/"

MtPaths == {p \in UNION {[1..k -> Chars] : k \in 1..MaxPathLen} : IsNormalized(p)}

\* The paths of up to four characters.
ShortPaths == {p \in MtPaths : Len(p) <= 4}

\* '/', '/a', '/ab', '/a/b'
MountPoints ==
    {Slash, <<"/", "a">>, <<"/", "a", "b">>, <<"/", "a", "/", "b">>}

\* s.startsWith(pre)
startsWith(s, pre) == Len(pre) <= Len(s) /\ SubSeq(s, 1, Len(pre)) = pre

\* s.slice(n)
slice(s, n) == SubSeq(s, n + 1, Len(s))

\* s.includes('/')
includesSlash(s) == \E i \in 1..Len(s) : s[i] = "/"

\* resolveFS(path): the first of the mounts, longest mount point first, that
\* path starts with.  obj is the identity of the object literal returned,
\* a new one at every call.
resolveFS(ms, path, obj) ==
    LET found == {m \in ms : Len(m) <= Len(path) /\ startsWith(path, m)} IN
    IF found = {}
       THEN [err |-> "EIO", fs |-> <<>>, path |-> <<>>, obj |-> obj]
       ELSE LET mountPoint == CHOOSE m \in found : \A o \in found : Len(o) <= Len(m)
                rest == slice(path, IF Len(mountPoint) > 1 THEN Len(mountPoint) ELSE 0)
            IN [err |-> "ok", fs |-> mountPoint,
                path |-> IF rest = <<>> THEN Slash ELSE rest, obj |-> obj]

\* The calls rename / renameSync makes: `_old === _new` compares the two
\* objects resolveFS returned.  readFails: readFile(oldPath) throws.
renameCalls(ms, oldPath, newPath, readFails) ==
    LET old == resolveFS(ms, oldPath, 1)
        new == resolveFS(ms, newPath, 2)
    IN
    IF old.err # "ok" \/ new.err # "ok" THEN <<>>
    ELSE IF old = new THEN <<"rename">>
    ELSE IF readFails THEN <<"readFile">>
    ELSE <<"readFile", "writeFile", "unlink">>

\* The entries readdir / readdirSync adds to the listing of the backend.
mountEntries(ms, path) ==
    {slice(m, Len(path)) : m \in {n \in ms :
        /\ startsWith(n, path)
        /\ ~includesSlash(slice(n, Len(path)))
        /\ Len(slice(n, Len(path))) # 0}}

NoMtNote ==
    [op |-> "none", p |-> Slash, q |-> Slash, r |-> resolveFS({Slash}, Slash, 0),
     calls |-> <<>>, listing |-> {}, names |-> {}]

MtDone(ms, note) ==
    /\ mtMounts' = ms
    /\ mtNote' = note
    /\ UNCHANGED mtOthers

\* mount(mountPoint, fs)
Mount(mountPoint) ==
    /\ mountPoint \notin mtMounts
    /\ MtDone(mtMounts \cup {mountPoint}, NoMtNote)

\* mount(mountPoint, fs) of a mount point in use: EINVAL
MountInUse(mountPoint) ==
    /\ mountPoint \in mtMounts
    /\ MtDone(mtMounts, NoMtNote)

\* umount(mountPoint)
Umount(mountPoint) ==
    /\ mountPoint \in mtMounts
    /\ MtDone(mtMounts \ {mountPoint}, NoMtNote)

\* A call that goes through doOp: the path is resolved.
MtResolve(path) ==
    MtDone(mtMounts, [NoMtNote EXCEPT !.op = "resolve", !.p = path,
                                      !.r = resolveFS(mtMounts, path, 0)])

\* rename(oldPath, newPath) / renameSync
MtRename(oldPath, newPath, readFails) ==
    MtDone(mtMounts, [NoMtNote EXCEPT !.op = "rename", !.p = oldPath, !.q = newPath,
                         !.calls = renameCalls(mtMounts, oldPath, newPath, readFails)])

\* readdir(path) / readdirSync, listing being what the backend returns
MtReaddir(path, listing) ==
    /\ resolveFS(mtMounts, path, 0).err = "ok"
    /\ MtDone(mtMounts, [NoMtNote EXCEPT !.op = "readdir", !.p = path, !.listing = listing,
                            !.names = listing \cup mountEntries(mtMounts, path)])

\* InMemoryFileSystem.Create().then(fs => mount('/', fs))
InitMounts ==
    /\ mtMounts = {Slash}
    /\ mtNote = NoMtNote

NextMounts ==
    \/ \E mountPoint \in MountPoints : Mount(mountPoint)
    \/ \E mountPoint \in MountPoints : MountInUse(mountPoint)
    \/ \E mountPoint \in MountPoints : Umount(mountPoint)
    \/ \E path \in MtPaths : MtResolve(path)
    \/ \E oldPath \in ShortPaths, newPath \in {<<"/", "a", "/", "b">>, <<"/", "b", "/", "a">>},
          readFails \in BOOLEAN : MtRename(oldPath, newPath, readFails)
    \/ \E path \in ShortPaths, listing \in {{}, {<<"b">>}} : MtReaddir(path, listing)

(***************************************************************************)
(* File descriptors (src/dist/emulation/shared.js 92-104, sync.js and       *)
(* promises.js)                                                             *)
(***************************************************************************)
\* let nextFd = 100
FirstFd == 100

\* The descriptors a caller passes: the allocated ones, and one below and
\* one above them.
Fds == (FirstFd - 1)..(FirstFd + MaxOpens)

NoHandle == "-"

\* The files opened; a handle is named by the file it was opened on.
Handles == {"x", "y"}

getFdForFile_NoIncrement(map, next, file) ==
    [fd |-> next, map |-> [map EXCEPT ![next] = file], next |-> next]

\* getFdForFile(file): const fd = nextFd++; fdMap.set(fd, file); return fd
getFdForFile(map, next, file) ==
    [fd |-> next, map |-> [map EXCEPT ![next] = file], next |-> next + 1]

\* fd2file(fd): EBADF unless fdMap.has(fd)
fd2file(map, fd) ==
    IF map[fd] = NoHandle THEN [err |-> "EBADF", file |-> NoHandle]
                          ELSE [err |-> "ok", file |-> map[fd]]

\* open / openSync that succeeded on the filesystem: return getFdForFile(file)
FdOpen(file) ==
    /\ nextFd < FirstFd + MaxOpens
    /\ LET r == getFdForFile(fdMap, nextFd, file) IN
         /\ fdMap' = r.map
         /\ nextFd' = r.next
         /\ fdEver' = fdEver \cup {<<r.fd, file>>}
         /\ fdReused' = (fdReused \/ \E h \in Handles : <<r.fd, h>> \in fdEver)
         /\ fdNote' = [op |-> "open", fd |-> r.fd, err |-> "ok", mapped |-> FALSE]
    /\ UNCHANGED <<fdClosing, fdClosed>>
    /\ UNCHANGED fdOthers

\* fstat, read, write, ftruncate, fsync, fchown, ... on fd: fd2file(fd)
\* first, then the method of the handle.
FdOp(fd) ==
    /\ fdNote' = [op |-> "op", fd |-> fd, err |-> fd2file(fdMap, fd).err,
                  mapped |-> fd \in {e[1] : e \in fdEver} \ fdClosed]
    /\ UNCHANGED <<fdMap, nextFd, fdClosing, fdEver, fdClosed, fdReused>>
    /\ UNCHANGED fdOthers

\* closeSync(fd): fd2file(fd).closeSync(); fdMap.delete(fd).  fails: the
\* closeSync of the handle throws.
FdCloseSync(fd, fails) ==
    LET f == fd2file(fdMap, fd) IN
    /\ fdNote' = [op |-> "close", fd |-> fd, err |-> IF f.err # "ok" THEN f.err
                                                  ELSE IF fails THEN "EIO" ELSE "ok",
                  mapped |-> fd \in {e[1] : e \in fdEver} \ fdClosed]
    /\ fdMap' = IF f.err = "ok" /\ ~fails THEN [fdMap EXCEPT ![fd] = NoHandle] ELSE fdMap
    /\ fdClosed' = IF f.err = "ok" /\ ~fails THEN fdClosed \cup {fd} ELSE fdClosed
    /\ UNCHANGED <<nextFd, fdClosing, fdEver, fdReused>>
    /\ UNCHANGED fdOthers

\* close(fd) up to its await: fd2file(fd), then the close of the handle is
\* under way.
FdCloseStart(fd) ==
    LET f == fd2file(fdMap, fd) IN
    /\ fd \notin fdClosing
    /\ fdNote' = [op |-> "close", fd |-> fd, err |-> f.err,
                  mapped |-> fd \in {e[1] : e \in fdEver} \ fdClosed]
    /\ fdClosing' = IF f.err = "ok" THEN fdClosing \cup {fd} ELSE fdClosing
    /\ UNCHANGED <<fdMap, nextFd, fdEver, fdClosed, fdReused>>
    /\ UNCHANGED fdOthers

\* close(fd) after its await: fdMap.delete(fd), unless the close of the
\* handle rejected.
FdCloseSettle(fd, fails) ==
    /\ fd \in fdClosing
    /\ fdClosing' = fdClosing \ {fd}
    /\ fdMap' = IF fails THEN fdMap ELSE [fdMap EXCEPT ![fd] = NoHandle]
    /\ fdClosed' = IF fails THEN fdClosed ELSE fdClosed \cup {fd}
    /\ fdNote' = [op |-> "closed", fd |-> fd, err |-> IF fails THEN "EIO" ELSE "ok",
                  mapped |-> TRUE]
    /\ UNCHANGED <<nextFd, fdEver, fdReused>>
    /\ UNCHANGED fdOthers

InitFd ==
    /\ fdMap = [fd \in Fds |-> NoHandle]
    /\ nextFd = FirstFd
    /\ fdClosing = {}
    /\ fdEver = {}
    /\ fdClosed = {}
    /\ fdReused = FALSE
    /\ fdNote = [op |-> "none", fd |-> FirstFd, err |-> "ok", mapped |-> FALSE]

NextFd ==
    \/ \E file \in Handles : FdOpen(file)
    \/ \E fd \in Fds : FdOp(fd)
    \/ \E fd \in Fds, fails \in BOOLEAN : FdCloseSync(fd, fails)
    \/ \E fd \in Fds : FdCloseStart(fd)
    \/ \E fd \in Fds, fails \in BOOLEAN : FdCloseSettle(fd, fails)

(***************************************************************************)
(* PreloadFile (src/unnamed/part_002:400-662)                               *)
(***************************************************************************)
\* A missing (undefined or null) position argument.
NoPos == 0 - 1

\* Flag strings as the characters FileFlag tests with indexOf.
FlagChars(flag) ==
    CASE flag = "r"   -> {"r"}
      [] flag = "r+"  -> {"r", "+"}
      [] flag = "rs"  -> {"r", "s"}
      [] flag = "rs+" -> {"r", "s", "+"}
      [] flag = "w"   -> {"w"}
      [] flag = "wx"  -> {"w", "x"}
      [] flag = "w+"  -> {"w", "+"}
      [] flag = "wx+" -> {"w", "x", "+"}
      [] flag = "a"   -> {"a"}
      [] flag = "ax"  -> {"a", "x"}
      [] flag = "a+"  -> {"a", "+"}
      [] flag = "ax+" -> {"a", "x", "+"}
      [] OTHER        -> {}

PfFlags == {"r", "r+", "rs+", "w", "a", "a+"}

isReadable(flag) == "r" \in FlagChars(flag) \/ "+" \in FlagChars(flag)

isWriteable(flag) ==
    "w" \in FlagChars(flag) \/ "a" \in FlagChars(flag) \/ "+" \in FlagChars(flag)

isAppendable(flag) == "a" \in FlagChars(flag)

isSynchronous(flag) == "s" \in FlagChars(flag)

\* Uint8Array.prototype.slice(start, end): negative indexes count from the
\* end, both are clamped to the array, an empty range gives an empty array.
\* Index i of the array is element i + 1 of the sequence.
jsSlice(arr, start, end) ==
    LET n == Len(arr)
        norm(i) == IF i < 0 THEN (IF n + i < 0 THEN 0 ELSE n + i)
                            ELSE (IF i > n THEN n ELSE i)
        a == norm(start)
        b == norm(end)
    IN IF a < b THEN SubSeq(arr, a + 1, b) ELSE <<>>

\* Whether TypedArray.prototype.set(src, at) throws a RangeError.
setThrows(target, src, at) == at < 0 \/ at + Len(src) > Len(target)

\* TypedArray.prototype.set(src, at) when it does not throw.
typedSet(target, src, at) ==
    [i \in 1..Len(target) |->
        IF i > at /\ i <= at + Len(src) THEN src[i - at] ELSE target[i]]

Zeros(n) == [i \in 1..n |-> 0]

\* new PreloadFile(fs, path, flag, stat, contents) with stat.size equal to
\* the length of the contents.
NewPreloadFile(flag, contents) ==
    [flag |-> flag, buffer |-> contents, size |-> Len(contents),
     pos |-> 0, dirty |-> FALSE]

getPos(f) == IF isAppendable(f.flag) THEN f.size ELSE f.pos

setPos(f, newPos) == [f EXCEPT !.pos = newPos]

\* writeSync(buffer, offset, length, position).  The result is the handle
\* after the call, the position the bytes were put at, the returned number
\* and the error thrown.  syncSync is the one of a subclass, which writes the
\* buffer through and clears the dirty mark.
writeSync(f, buffer, offset, length, position) ==
    LET f1      == [f EXCEPT !.dirty = TRUE]
        at      == IF position = NoPos THEN getPos(f1) ELSE position
        endFp   == at + length
        grown   == endFp > f1.size
        f2      == IF grown
                      THEN [f1 EXCEPT !.size = endFp,
                                      !.buffer = IF endFp > Len(@)
                                                    THEN @ \o Zeros(endFp - Len(@))
                                                    ELSE @]
                      ELSE f1
        src     == jsSlice(buffer, offset, offset + length)
        f3      == [f2 EXCEPT !.buffer = typedSet(@, src, at)]
        len     == Len(f3.buffer)
    IN IF ~isWriteable(f.flag)
          THEN [f |-> f1, at |-> at, ret |-> 0, err |-> "EPERM"]
       ELSE IF setThrows(f2.buffer, src, at)
          THEN [f |-> f2, at |-> at, ret |-> 0, err |-> "RangeError"]
       ELSE IF isSynchronous(f.flag)
          THEN [f |-> [f3 EXCEPT !.dirty = FALSE], at |-> at, ret |-> len, err |-> "ok"]
       ELSE [f |-> setPos(f3, at + len), at |-> at, ret |-> length, err |-> "ok"]

\* readSync(buffer, offset, length, position).  The result is the handle
\* after the call, the caller's buffer after it, the position used, the
\* returned number and the error thrown.
readSync(f, buffer, offset, length, position) ==
    LET at      == IF position = NoPos THEN getPos(f) ELSE position
        endRead == at + length
        length1 == IF endRead > f.size THEN f.size - at ELSE length
        src     == jsSlice(f.buffer, offset, offset + length1)
    IN IF ~isReadable(f.flag)
          THEN [f |-> f, out |-> buffer, at |-> at, ret |-> 0, err |-> "EPERM"]
       ELSE IF setThrows(buffer, src, at)
          THEN [f |-> f, out |-> buffer, at |-> at, ret |-> 0, err |-> "RangeError"]
       ELSE [f |-> [f EXCEPT !.pos = at + length1],
             out |-> typedSet(buffer, src, at),
             at |-> at, ret |-> length1, err |-> "ok"]

\* File contents at open, the buffers callers write from, and the buffer
\* callers read into.
PfContents == {<<>>, <<1>>, <<1, 2>>}

WriteBufs == {<<3>>, <<3, 4>>}

ReadBuf == <<9, 9, 9>>

Positions == {NoPos} \cup 0..(MaxFileLen - 1)

NoPfNote ==
    [op |-> "none", buffer |-> <<>>, offset |-> 0, length |-> 0, position |-> NoPos,
     at |-> 0, sizeBefore |-> 0, ret |-> 0, err |-> "ok", out |-> <<>>]

\* A filesystem opens the file and hands out the handle.
PfOpen(flag, contents) ==
    /\ pf.flag = "none"
    /\ pf' = NewPreloadFile(flag, contents)
    /\ UNCHANGED <<pfOps, pfNote>>
    /\ UNCHANGED pfOthers

PfWrite(buffer, offset, length, position) ==
    /\ pf.flag # "none"
    /\ pfOps < MaxPfOps
    /\ LET r == writeSync(pf, buffer, offset, length, position) IN
         /\ Len(r.f.buffer) <= MaxFileLen
         /\ pf' = r.f
         /\ pfNote' = [op |-> "write", buffer |-> buffer, offset |-> offset,
                       length |-> length, position |-> position, at |-> r.at,
                       sizeBefore |-> pf.size, ret |-> r.ret, err |-> r.err,
                       out |-> <<>>]
    /\ pfOps' = pfOps + 1
    /\ UNCHANGED pfOthers

PfRead(offset, length, position) ==
    /\ pf.flag # "none"
    /\ pfOps < MaxPfOps
    /\ LET r == readSync(pf, ReadBuf, offset, length, position) IN
         /\ pf' = r.f
         /\ pfNote' = [op |-> "read", buffer |-> ReadBuf, offset |-> offset,
                       length |-> length, position |-> position, at |-> r.at,
                       sizeBefore |-> pf.size, ret |-> r.ret, err |-> r.err,
                       out |-> r.out]
    /\ pfOps' = pfOps + 1
    /\ UNCHANGED pfOthers

InitPreload ==
    /\ pf = [flag |-> "none", buffer |-> <<>>, size |-> 0, pos |-> 0, dirty |-> FALSE]
    /\ pfOps = 0
    /\ pfNote = NoPfNote

NextPreload ==
    \/ \E flag \in PfFlags, contents \in PfContents : PfOpen(flag, contents)
    \/ \E buffer \in WriteBufs, offset \in 0..1, length \in 0..2, position \in Positions :
          PfWrite(buffer, offset, length, position)
    \/ \E offset \in 0..1, length \in 0..2, position \in Positions :
          PfRead(offset, length, position)

(***************************************************************************)
(* FileFlag (src/unnamed/part_002:204-354)                                  *)
(***************************************************************************)
validFlagStrs ==
    {"r", "r+", "rs", "rs+", "w", "wx", "w+", "wx+", "a", "ax", "a+", "ax+"}

\* Strings a caller may pass: the valid ones and two that are not.
FlagInputs == validFlagStrs \cup {"rw", "x"}

isTruncating(flag) == "w" \in FlagChars(flag)

isExclusive(flag) == "x" \in FlagChars(flag)

pathExistsAction(flag) ==
    IF isExclusive(flag) THEN "THROW_EXCEPTION"
    ELSE IF isTruncating(flag) THEN "TRUNCATE_FILE"
    ELSE "NOP"

pathNotExistsAction(flag) ==
    IF (isWriteable(flag) \/ isAppendable(flag)) /\ flag # "r+"
       THEN "CREATE_FILE"
       ELSE "THROW_EXCEPTION"

NoFfNote == [op |-> "none", flag |-> "", err |-> "ok", str |-> "",
             exists |-> "", notExists |-> ""]

\* FileFlag.getFileFlag(flag) for a string: the cached object, or a new one
\* that is cached unless its constructor throws EINVAL; then the caller asks
\* the object for its string and its two actions.
GetFileFlag(flag) ==
    /\ flag \in ffCache \/ Cardinality(ffCache) < MaxCached
    /\ IF flag \notin ffCache /\ flag \notin validFlagStrs
          THEN /\ ffNote' = [op |-> "get", flag |-> flag, err |-> "EINVAL", str |-> "",
                            exists |-> "", notExists |-> ""]
               /\ UNCHANGED ffCache
          ELSE /\ ffCache' = ffCache \cup {flag}
               /\ ffNote' = [op |-> "get", flag |-> flag, err |-> "ok", str |-> flag,
                            exists |-> pathExistsAction(flag),
                            notExists |-> pathNotExistsAction(flag)]
    /\ UNCHANGED ffOthers

InitFlag ==
    /\ ffCache = {}
    /\ ffNote = NoFfNote

NextFlag == \E flag \in FlagInputs : GetFileFlag(flag)

(***************************************************************************)
(* FolderAdapter._initialize (src/dist/backends/FolderAdapter.js:42-49)     *)
(* over a writable wrapped filesystem, whose tree changes, and over a       *)
(* read-only one that holds LowerTree.                                      *)
(***************************************************************************)
Wrapped == {"rw", "ro"}

FaFolders == {<<"d">>, <<"d", "s">>, <<"e">>}

WrappedTree(which) == IF which = "ro" THEN LowerTree ELSE faTree

\* this._wrapped.metadata.readonly
WrappedReadonly(which) == which = "ro"

\* this._wrapped.mkdir(folder, 0o777, Cred.Root): a read-only filesystem
\* keeps BaseFileSystem.mkdir, which throws ENOTSUP.
WrappedMkdir(which, folder) ==
    IF WrappedReadonly(which) THEN FsErr(WrappedTree(which), "ENOTSUP")
    ELSE FsMkdir(WrappedTree(which), folder, AllPerms)

NoFaCall == [on |-> FALSE, which |-> "rw", folder |-> <<>>, exists |-> FALSE]

NoFaNote == [op |-> "none", which |-> "rw", folder |-> <<>>, exists |-> FALSE,
             existsAtMkdir |-> FALSE, parentIsDir |-> FALSE, err |-> "ok",
             created |-> FALSE]

\* new FolderAdapter({folder, wrapped}): _initialize runs up to
\* `await this._wrapped.exists(this._folder, Cred.Root)`.
FaInitStart(which, folder) ==
    /\ ~faCall.on
    /\ faCall' = [on |-> TRUE, which |-> which, folder |-> folder,
                  exists |-> FsExists(WrappedTree(which), folder)]
    /\ UNCHANGED <<faTree, faNote>>
    /\ UNCHANGED faOthers

\* _initialize resumes with the answer of exists: it throws ENOENT, or calls
\* mkdir and ends as mkdir ends.
FaInitResume ==
    /\ faCall.on
    /\ LET which  == faCall.which
           folder == faCall.folder
           tree   == WrappedTree(which)
           throws == ~faCall.exists /\ WrappedReadonly(which)
           r      == IF throws THEN FsErr(tree, "ENOENT") ELSE WrappedMkdir(which, folder)
       IN /\ faTree' = IF which = "rw" THEN r.fs ELSE faTree
          /\ faNote' = [op |-> "init", which |-> which, folder |-> folder,
                        exists |-> faCall.exists,
                        existsAtMkdir |-> FsExists(tree, folder),
                        parentIsDir |-> tree[dirname(folder)].t = "dir",
                        err |-> r.err,
                        created |-> ~FsExists(tree, folder) /\ FsExists(r.fs, folder)]
    /\ faCall' = NoFaCall
    /\ UNCHANGED faOthers

\* Somebody else makes or removes a directory on the writable filesystem.
FaWrappedMkdir(p) ==
    /\ FsMkdir(faTree, p, AllPerms).err = "ok"
    /\ faTree' = FsMkdir(faTree, p, AllPerms).fs
    /\ UNCHANGED <<faCall, faNote>>
    /\ UNCHANGED faOthers

FaWrappedRmdir(p) ==
    /\ FsRmdir(faTree, p).err = "ok"
    /\ faTree' = FsRmdir(faTree, p).fs
    /\ UNCHANGED <<faCall, faNote>>
    /\ UNCHANGED faOthers

InitFolder ==
    /\ faTree = EmptyTree
    /\ faCall = NoFaCall
    /\ faNote = NoFaNote

NextFolder ==
    \/ \E which \in Wrapped, folder \in FaFolders : FaInitStart(which, folder)
    \/ FaInitResume
    \/ \E p \in FaFolders : FaWrappedMkdir(p)
    \/ \E p \in FaFolders : FaWrappedRmdir(p)

(***************************************************************************)
(* The path cache of the async key-value engine                             *)
(* (src/dist/backends/AsyncStore.js:18-118, 179-252, 351-412, 526-562).     *)
(* The files are /a and /b in the root directory; the cache is large        *)
(* enough never to evict.  Id 0 stands for "no entry".                      *)
(***************************************************************************)
CacheCalls == 1..MaxCacheCalls

CacheNames == {"a", "b"}

NoEntries == [n \in CacheNames |-> 0]

IdleCall == [op |-> "none", st |-> "new", a |-> "a", b |-> "a",
             snap |-> NoEntries, c |-> FALSE]

NoKcNote == [op |-> "none", name |-> "a", fromCache |-> FALSE, id |-> 0, listed |-> 0]

KcStart(c, call) ==
    /\ kcCall[c].st = "new"
    /\ kcCall' = [kcCall EXCEPT ![c] = call]

KcUnchangedElse == UNCHANGED kcOthers

\* _findINode('/', name) up to its first await: an id in the enabled cache
\* is the answer; otherwise the root's listing is asked for.
LookupStart(c, name) ==
    /\ IF kcOn /\ kcCache[name] # 0
          THEN /\ KcStart(c, [IdleCall EXCEPT !.op = "lookup", !.st = "done", !.a = name])
               /\ kcNote' = [op |-> "lookup", name |-> name, fromCache |-> TRUE,
                             id |-> kcCache[name], listed |-> kcList[name]]
          ELSE /\ KcStart(c, [IdleCall EXCEPT !.op = "lookup", !.st = "get", !.a = name])
               /\ UNCHANGED kcNote
    /\ UNCHANGED <<kcList, kcCache, kcOn>>
    /\ KcUnchangedElse

\* The store answers tx.get of a call with the listing it holds now.
StoreGet(c) ==
    /\ kcCall[c].st = "get"
    /\ kcCall' = [kcCall EXCEPT ![c].snap = kcList, ![c].st = "got"]
    /\ UNCHANGED <<kcList, kcCache, kcOn, kcNote>>
    /\ KcUnchangedElse

\* _findINode resumes with the listing: the id found is put into the cache
\* when this._cache is set, and returned; a missing name is ENOENT.
LookupResume(c) ==
    /\ kcCall[c].op = "lookup" /\ kcCall[c].st = "got"
    /\ LET name == kcCall[c].a
           id   == kcCall[c].snap[name]
       IN /\ kcCache' = IF id # 0 /\ kcOn THEN [kcCache EXCEPT ![name] = id] ELSE kcCache
          /\ kcNote' = [op |-> "lookup", name |-> name, fromCache |-> FALSE,
                        id |-> id, listed |-> kcList[name]]
    /\ kcCall' = [kcCall EXCEPT ![c].st = "done"]
    /\ UNCHANGED <<kcList, kcOn>>
    /\ KcUnchangedElse

\* rename(oldPath, newPath) up to its first await: `const c = this._cache`,
\* and when that is set the cache is cleared and this._cache set to null.
RenameStart(c, oldName, newName) ==
    /\ KcStart(c, [IdleCall EXCEPT !.op = "rename", !.st = "get", !.a = oldName,
                                   !.b = newName, !.c = kcOn])
    /\ kcOn' = FALSE
    /\ kcCache' = IF kcOn THEN NoEntries ELSE kcCache
    /\ UNCHANGED <<kcList, kcNote>>
    /\ KcUnchangedElse

\* rename resumes with the listing: ENOENT when oldName is missing, else the
\* changed listing is put and committed.
RenamePut(c) ==
    /\ kcCall[c].op = "rename" /\ kcCall[c].st = "got"
    /\ LET old  == kcCall[c].a
           new  == kcCall[c].b
           list == kcCall[c].snap
       IN kcList' = IF list[old] = 0 THEN kcList
                    ELSE [[list EXCEPT ![old] = 0] EXCEPT ![new] = list[old]]
    /\ kcCall' = [kcCall EXCEPT ![c].st = "finally"]
    /\ UNCHANGED <<kcCache, kcOn, kcNote>>
    /\ KcUnchangedElse

\* The finally block of rename: `if (c) this._cache = c`.
RenameFinally(c) ==
    /\ kcCall[c].op = "rename" /\ kcCall[c].st = "finally"
    /\ kcOn' = IF kcCall[c].c THEN TRUE ELSE kcOn
    /\ kcCall' = [kcCall EXCEPT ![c].st = "done"]
    /\ UNCHANGED <<kcList, kcCache, kcNote>>
    /\ KcUnchangedElse

\* removeEntry(p) of unlink and rmdir up to its first await: the path is
\* removed from the cache when this._cache is set.
RemoveStart(c, name) ==
    /\ KcStart(c, [IdleCall EXCEPT !.op = "remove", !.st = "get", !.a = name])
    /\ kcCache' = IF kcOn THEN [kcCache EXCEPT ![name] = 0] ELSE kcCache
    /\ UNCHANGED <<kcList, kcOn, kcNote>>
    /\ KcUnchangedElse

\* removeEntry resumes with the listing: ENOENT when the name is missing,
\* else the listing without it is put and committed.
RemovePut(c) ==
    /\ kcCall[c].op = "remove" /\ kcCall[c].st = "got"
    /\ LET name == kcCall[c].a
           list == kcCall[c].snap
       IN kcList' = IF list[name] = 0 THEN kcList ELSE [list EXCEPT ![name] = 0]
    /\ kcCall' = [kcCall EXCEPT ![c].st = "done"]
    /\ UNCHANGED <<kcCache, kcOn, kcNote>>
    /\ KcUnchangedElse

InitCache ==
    /\ kcList = [n \in CacheNames |-> IF n = "a" THEN 1 ELSE 0]
    /\ kcCache = NoEntries
    /\ kcOn = TRUE
    /\ kcCall = [c \in CacheCalls |-> IdleCall]
    /\ kcNote = NoKcNote

NextCache ==
    \/ \E c \in CacheCalls, name \in CacheNames : LookupStart(c, name)
    \/ \E c \in CacheCalls : StoreGet(c)
    \/ \E c \in CacheCalls : LookupResume(c)
    \/ \E c \in CacheCalls, oldName \in CacheNames, newName \in CacheNames :
          RenameStart(c, oldName, newName)
    \/ \E c \in CacheCalls : RenamePut(c)
    \/ \E c \in CacheCalls : RenameFinally(c)
    \/ \E c \in CacheCalls, name \in CacheNames : RemoveStart(c, name)
    \/ \E c \in CacheCalls : RemovePut(c)

(***************************************************************************)
(* addNewNode (src/dist/backends/SyncStore.js:377-391,                      *)
(* src/dist/backends/AsyncStore.js:449-469).  randomUUID is a sequence of   *)
(* ids drawn from a small id space, so that collisions happen.              *)
(***************************************************************************)
AnIds == {1, 2}

AnData == {"x", "y"}

NoData == "-"

Rolls == [1..MaxRolls -> AnIds]

\* store.put(key, data, overwrite) of InMemoryStore: the store afterwards
\* and the boolean returned.
StorePut(store, key, data, overwrite) ==
    IF ~overwrite /\ store[key] # NoData
       THEN [store |-> store, committed |-> FALSE]
       ELSE [store |-> [store EXCEPT ![key] = data], committed |-> TRUE]

RECURSIVE syncAddNewNode(_, _, _, _, _)
\* The sync loop `while (retries < 5)` with `const retries = 0`: the i-th
\* pass puts under the i-th id and returns that id unless put throws, which
\* the catch block ignores.  After MaxRolls passes the loop is still going.
syncAddNewNode(store, data, rolls, throws, i) ==
    IF i > MaxRolls
       THEN [store |-> store, id |-> 0, err |-> "running", attempts |-> i - 1]
    ELSE IF throws
       THEN syncAddNewNode(store, data, rolls, throws, i + 1)
    ELSE [store |-> StorePut(store, rolls[i], data, FALSE).store,
          id |-> rolls[i], err |-> "ok", attempts |-> i]

RECURSIVE asyncReroll(_, _, _, _, _)
\* The async reroll: `if (++retries === 5)` throws EIO, else put under a
\* new id and reroll when put answers false; a rejected put rejects the call.
asyncReroll(store, data, rolls, throws, retries) ==
    LET r == retries + 1
        put == StorePut(store, rolls[r], data, FALSE)
    IN IF r = 5
          THEN [store |-> store, id |-> 0, err |-> "EIO", attempts |-> r - 1]
       ELSE IF throws
          THEN [store |-> store, id |-> 0, err |-> "put", attempts |-> r]
       ELSE IF ~put.committed
          THEN asyncReroll(store, data, rolls, throws, r)
       ELSE [store |-> put.store, id |-> rolls[r], err |-> "ok", attempts |-> r]

addNewNode(engine, store, data, rolls, throws) ==
    IF engine = "sync" THEN syncAddNewNode(store, data, rolls, throws, 1)
                       ELSE asyncReroll(store, data, rolls, throws, 0)

NoAnNote == [op |-> "none", engine |-> "sync", data |-> NoData, throws |-> FALSE,
             id |-> 0, err |-> "ok", attempts |-> 0, wasAbsent |-> FALSE,
             kept |-> TRUE, collisions |-> 0]

\* The ids at the head of the rolls that are in use.
RECURSIVE Collisions(_, _, _)
Collisions(store, rolls, i) ==
    IF i > MaxRolls \/ store[rolls[i]] = NoData THEN 0
    ELSE 1 + Collisions(store, rolls, i + 1)

AddNewNode(engine, data, rolls, throws) ==
    LET r == addNewNode(engine, anStore, data, rolls, throws) IN
    /\ anStore' = r.store
    /\ anNote' = [op |-> "add", engine |-> engine, data |-> data, throws |-> throws,
                  id |-> r.id, err |-> r.err, attempts |-> r.attempts,
                  wasAbsent |-> r.id # 0 /\ anStore[r.id] = NoData,
                  kept |-> \A k \in AnIds : anStore[k] # NoData => r.store[k] = anStore[k],
                  collisions |-> Collisions(anStore, rolls, 1)]
    /\ UNCHANGED anOthers

\* tx.del(id) of some other call.
AnDel(id) ==
    /\ anStore[id] # NoData
    /\ anStore' = [anStore EXCEPT ![id] = NoData]
    /\ anNote' = NoAnNote
    /\ UNCHANGED anOthers

InitAdd ==
    /\ anStore = [k \in AnIds |-> NoData]
    /\ anNote = NoAnNote

NextAdd ==
    \/ \E engine \in KVEngines, data \in AnData, rolls \in Rolls, throws \in BOOLEAN :
          AddNewNode(engine, data, rolls, throws)
    \/ \E id \in AnIds : AnDel(id)

(***************************************************************************)
(* AsyncMirror with the two backends' trees, for one file /f               *)
(* (src/dist/backends/FolderAdapter.js:185-198, 272-310, 382-402;           *)
(* src/dist/filesystem.js:64-104, 139-181, 315-342).  The queue is the one  *)
(* of the writer above.                                                     *)
(***************************************************************************)
NoFileAt == [has |-> FALSE, data |-> <<>>]

FileAt(data) == [has |-> TRUE, data |-> data]

ClosedFd == [flag |-> "none", buffer |-> <<>>, size |-> 0, pos |-> 0, dirty |-> FALSE,
             changed |-> FALSE]

MirrorFlags == {"r+", "w", "a", "wx"}

NoArgs == [data |-> <<>>, flag |-> "none"]

\* open / openSync of BaseFileSystem on one backend's file: what becomes of
\* the file, and the error.  An exclusive flag on an existing file ends with
\* EEXIST in both (in open through the catch block and createFile).
BackendOpen(file, flag) ==
    IF file.has
       THEN IF pathExistsAction(flag) = "THROW_EXCEPTION" THEN [file |-> file, err |-> "EEXIST"]
            ELSE IF pathExistsAction(flag) = "TRUNCATE_FILE"
                    THEN [file |-> FileAt(<<>>), err |-> "ok"]
            ELSE [file |-> file, err |-> "ok"]
       ELSE IF pathNotExistsAction(flag) = "CREATE_FILE"
               THEN [file |-> FileAt(<<>>), err |-> "ok"]
               ELSE [file |-> file, err |-> "ENOENT"]

\* writeFile / writeFileSync(p, data, flag, mode): open, write the data at
\* position 0, close.
BackendWriteFile(file, data, flag) ==
    LET o == BackendOpen(file, flag)
        w == writeSync(NewPreloadFile(flag, o.file.data), data, 0, Len(data), 0)
    IN IF o.err # "ok" THEN o
       ELSE IF w.err # "ok" THEN [file |-> o.file, err |-> w.err]
       ELSE [file |-> FileAt(w.f.buffer), err |-> "ok"]

BackendUnlink(file) ==
    IF file.has THEN [file |-> NoFileAt, err |-> "ok"]
                ELSE [file |-> file, err |-> "ENOENT"]

\* AsyncMirror.openSync(p, flag): open and close on the sync backend, then a
\* MirrorFile over what the sync backend holds now.  Nothing is enqueued.
MfOpenSync(flag) ==
    /\ mfFd.flag = "none"
    /\ LET o == BackendOpen(mfSync, flag) IN
         /\ o.err = "ok"
         /\ mfSync' = o.file
         /\ mfFd' = [flag |-> flag, buffer |-> o.file.data, size |-> Len(o.file.data),
                     pos |-> 0, dirty |-> FALSE, changed |-> o.file # mfSync]
    /\ UNCHANGED <<mfAsync, mfArgs, mfSilent>>
    /\ UNCHANGED mirrorVars
    /\ UNCHANGED mfQueueOthers

\* MirrorFile.writeSync of one byte at the current position.
MfWrite ==
    /\ mfFd.flag # "none"
    /\ LET f == [flag |-> mfFd.flag, buffer |-> mfFd.buffer, size |-> mfFd.size,
                 pos |-> mfFd.pos, dirty |-> mfFd.dirty]
           w == writeSync(f, <<3>>, 0, 1, NoPos)
       IN /\ w.err = "ok"
          /\ Len(w.f.buffer) <= MaxMirrorLen
          /\ mfFd' = [flag |-> w.f.flag, buffer |-> w.f.buffer, size |-> w.f.size,
                      pos |-> w.f.pos, dirty |-> w.f.dirty, changed |-> mfFd.changed]
    /\ UNCHANGED <<mfSync, mfAsync, mfArgs, mfSilent>>
    /\ UNCHANGED mirrorVars
    /\ UNCHANGED mfQueueOthers

\* MirrorFile.closeSync: syncSync, which when the file is dirty calls
\* _syncSync: writeFileSync with flag 'w' on the sync backend, then the
\* mirror operation writeFile with the file's own flag.
MfCloseSync ==
    /\ mfFd.flag # "none"
    /\ IF mfFd.dirty
          THEN /\ Len(msync) < MaxOps
               /\ LET op == [id |-> Len(msync) + 1, m |-> "writeFile"] IN
                    /\ mfSync' = BackendWriteFile(mfSync, mfFd.buffer, "w").file
                    /\ msync' = Append(msync, op)
                    /\ mfArgs' = [mfArgs EXCEPT ![op.id] = [data |-> mfFd.buffer,
                                                           flag |-> mfFd.flag]]
                    /\ enqueueOp(op)
               /\ UNCHANGED mfSilent
          ELSE /\ mfSilent' = (mfSilent \/ mfFd.changed)
               /\ UNCHANGED <<mfSync, mfArgs, mq, mrun, msync, msub, mfly>>
    /\ mfFd' = ClosedFd
    /\ UNCHANGED <<mfAsync, mstyle, mdone, mfailed>>
    /\ UNCHANGED mfQueueOthers

\* AsyncMirror.unlinkSync(p) that does not throw.
MfUnlinkSync ==
    /\ mfFd.flag = "none"
    /\ mfSync.has
    /\ Len(msync) < MaxOps
    /\ LET op == [id |-> Len(msync) + 1, m |-> "unlink"] IN
         /\ mfSync' = NoFileAt
         /\ msync' = Append(msync, op)
         /\ enqueueOp(op)
    /\ UNCHANGED <<mfAsync, mfFd, mfArgs, mfSilent, mstyle, mdone, mfailed>>
    /\ UNCHANGED mfQueueOthers

\* The async backend ends an operation in flight: it fulfils with its tree
\* changed, or rejects.
MfAsyncSettle(op) ==
    /\ op \in mfly
    /\ LET r == IF op.m = "unlink" THEN BackendUnlink(mfAsync)
                ELSE BackendWriteFile(mfAsync, mfArgs[op.id].data, mfArgs[op.id].flag)
       IN /\ mfAsync' = r.file
          /\ IF r.err = "ok"
                THEN /\ mdone' = mdone \cup {op}
                     /\ IF mstyle = "callback"
                           THEN doNextOp(mq, mrun, mfly \ {op})
                           ELSE /\ mfly' = mfly \ {op}
                                /\ UNCHANGED <<mq, mrun, msub>>
                     /\ UNCHANGED mfailed
                ELSE /\ mfly' = mfly \ {op}
                     /\ mfailed' = TRUE
                     /\ UNCHANGED <<mq, mrun, msub, mdone>>
    /\ UNCHANGED <<mfSync, mfFd, mfArgs, mfSilent, mstyle, msync>>
    /\ UNCHANGED mfQueueOthers

InitMirrorFile ==
    /\ mfSync = NoFileAt
    /\ mfAsync = NoFileAt
    /\ mfFd = ClosedFd
    /\ mfArgs = [i \in 1..MaxOps |-> NoArgs]
    /\ mfSilent = FALSE

NextMirrorFile ==
    \/ \E flag \in MirrorFlags : MfOpenSync(flag)
    \/ MfWrite
    \/ MfCloseSync
    \/ MfUnlinkSync
    \/ \E op \in MirrorOps : MfAsyncSettle(op)

(***************************************************************************)
(* The mount table from module load on (src/dist/emulation/shared.js        *)
(* 105-149, 183-194): which filesystem is at each mount point, and the      *)
(* default root mount that module load leaves to a promise reaction.        *)
(***************************************************************************)
BootPoints == {Slash, <<"/", "a">>}

\* "mem": the InMemoryFileSystem of module load.  "fs", "off": filesystems
\* of the caller; the class of "off" answers false to isAvailable().
NoFs == "none"
CallerFs == {"fs", "off"}
isAvailable(fs) == fs # "off"

\* Object.entries(mountMapping): one entry for each key, in insertion order.
Mappings ==
    {m \in UNION {[1..k -> [point : BootPoints, fs : CallerFs]] : k \in 1..2} :
        \A i, j \in 1..Len(m) : i # j => m[i].point # m[j].point}

NoBtNote == [op |-> "none", mapping |-> <<>>, err |-> "ok", default |-> "pending", late |-> FALSE]

\* mount(mountPoint, fs): the table after it and what it threw
mount(ms, mountPoint, fs) ==
    IF ms[mountPoint] # NoFs
       THEN [ms |-> ms, err |-> "EINVAL"]
       ELSE [ms |-> [ms EXCEPT ![mountPoint] = fs], err |-> "ok"]

\* umount(mountPoint)
umount(ms, mountPoint) ==
    IF ms[mountPoint] = NoFs
       THEN [ms |-> ms, err |-> "EINVAL"]
       ELSE [ms |-> [ms EXCEPT ![mountPoint] = NoFs], err |-> "ok"]

\* The loop of initialize from entry i on: the first entry whose filesystem
\* is unavailable or whose mount point is in use ends it with EINVAL.
RECURSIVE mountEntriesFrom(_, _, _)
mountEntriesFrom(ms, mapping, i) ==
    IF i > Len(mapping) THEN [ms |-> ms, err |-> "ok"]
    ELSE IF ~isAvailable(mapping[i].fs) THEN [ms |-> ms, err |-> "EINVAL"]
    ELSE LET r == mount(ms, mapping[i].point, mapping[i].fs) IN
         IF r.err # "ok" THEN r ELSE mountEntriesFrom(r.ms, mapping, i + 1)

\* initialize(mountMapping)
initialize(ms, mapping) ==
    LET hasRoot == \E i \in 1..Len(mapping) : mapping[i].point = Slash
        u == IF hasRoot THEN umount(ms, Slash) ELSE [ms |-> ms, err |-> "ok"]
    IN IF u.err # "ok" THEN u ELSE mountEntriesFrom(u.ms, mapping, 1)

BtCall(op, mapping, r) ==
    /\ btMounts' = r.ms
    /\ btNote' = [btNote EXCEPT !.op = op, !.mapping = mapping, !.err = r.err,
                                !.late = FALSE]
    /\ UNCHANGED <<btPending, btOthers>>

\* InMemoryFileSystem.Create().then(fs => mount('/', fs)): the reaction runs
\* in a later job than module load, after whatever the importer did first.
DefaultMountRuns ==
    /\ btPending
    /\ LET r == mount(btMounts, Slash, "mem") IN
        /\ btMounts' = r.ms
        /\ btNote' = [btNote EXCEPT !.default = r.err, !.late = TRUE]
    /\ btPending' = FALSE
    /\ UNCHANGED btOthers

BtInitialize(mapping) == BtCall("initialize", mapping, initialize(btMounts, mapping))

BtMount(mountPoint, fs) ==
    BtCall("mount", <<[point |-> mountPoint, fs |-> fs]>>, mount(btMounts, mountPoint, fs))

BtUmount(mountPoint) ==
    BtCall("umount", <<[point |-> mountPoint, fs |-> NoFs]>>, umount(btMounts, mountPoint))

\* export const mounts = new Map(), and the default mount not yet run
InitBoot ==
    /\ btMounts = [p \in BootPoints |-> NoFs]
    /\ btPending = TRUE
    /\ btNote = NoBtNote

NextBoot ==
    \/ DefaultMountRuns
    \/ \E mapping \in Mappings : BtInitialize(mapping)
    \/ \E mountPoint \in BootPoints, fs \in CallerFs : BtMount(mountPoint, fs)
    \/ \E mountPoint \in BootPoints : BtUmount(mountPoint)

(***************************************************************************)
(* One transaction at a time over an InMemoryStore (SyncStore.js:12-82,     *)
(* AsyncStore.js:692-718)                                                   *)
(***************************************************************************)
TxKeys == 1..MaxTxKeys

\* The byte arrays a caller puts.
TxValues == {DataVal(d) : d \in FileData}

\* store.beginTransaction('readwrite') once the last transaction is over.
beginTransaction ==
    /\ txPhase # "open"
    /\ txn' = NewTx(txn.st)
    /\ txPhase' = "open"
    /\ txBegin' = txn.st
    /\ txPre' = txn.st
    /\ txTouched' = {}
    /\ UNCHANGED txOthers

TransactionGet(key) ==
    /\ txPhase = "open"
    /\ txn' = TxGet(txn, key)
    /\ txTouched' = txTouched \cup {key}
    /\ UNCHANGED <<txPhase, txBegin, txPre>>
    /\ UNCHANGED txOthers

TransactionPut(key, data, overwrite) ==
    /\ txPhase = "open"
    /\ txn' = TxPut(txn, key, data, overwrite)
    /\ txTouched' = txTouched \cup {key}
    /\ UNCHANGED <<txPhase, txBegin, txPre>>
    /\ UNCHANGED txOthers

TransactionDel(key) ==
    /\ txPhase = "open"
    /\ txn' = TxDel(txn, key)
    /\ txTouched' = txTouched \cup {key}
    /\ UNCHANGED <<txPhase, txBegin, txPre>>
    /\ UNCHANGED txOthers

TransactionAbort ==
    /\ txPhase = "open"
    /\ txn' = [txn EXCEPT !.st = TxAbort(txn)]
    /\ txPhase' = "aborted"
    /\ txPre' = txn.st
    /\ UNCHANGED <<txBegin, txTouched>>
    /\ UNCHANGED txOthers

\* commit() does nothing.
TransactionCommit ==
    /\ txPhase = "open"
    /\ txPhase' = "committed"
    /\ UNCHANGED <<txn, txBegin, txPre, txTouched>>
    /\ UNCHANGED txOthers

\* An empty InMemoryStore and its first transaction.
InitTx ==
    /\ txn = NewTx([k \in Keys |-> Absent])
    /\ txPhase = "open"
    /\ txBegin = [k \in Keys |-> Absent]
    /\ txPre = [k \in Keys |-> Absent]
    /\ txTouched = {}

NextTx ==
    \/ beginTransaction
    \/ \E key \in TxKeys : TransactionGet(key)
    \/ \E key \in TxKeys, data \in TxValues, overwrite \in BOOLEAN :
           TransactionPut(key, data, overwrite)
    \/ \E key \in TxKeys : TransactionDel(key)
    \/ TransactionAbort
    \/ TransactionCommit

Init == InitMutex /\ InitMirror /\ InitLog /\ InitKV /\ InitApi /\ InitOverlay /\ InitMeta /\ InitMounts /\ InitFd /\ InitLocked /\ InitPreload /\ InitFlag /\ InitFolder /\ InitCache /\ InitAdd /\ InitMirrorFile /\ InitBoot /\ InitTx

SpecMutex == Init /\ [][NextMutex]_vars

SpecMirror == Init /\ [][NextMirror]_vars

SpecLog == Init /\ [][NextLog]_vars

SpecKV == Init /\ [][NextKV]_vars

SpecKVFile == Init /\ [][NextKVFile]_vars

SpecKVTree == Init /\ [][NextKVTree]_vars

SpecOverlay == Init /\ [][NextOverlay]_vars

SpecMeta == Init /\ [][NextMeta]_vars

SpecMounts == Init /\ [][NextMounts]_vars

SpecFd == Init /\ [][NextFd]_vars

SpecLocked == Init /\ [][NextLocked]_vars

SpecPreload == Init /\ [][NextPreload]_vars

SpecFlag == Init /\ [][NextFlag]_vars

SpecFolder == Init /\ [][NextFolder]_vars

SpecCache == Init /\ [][NextCache]_vars

SpecAdd == Init /\ [][NextAdd]_vars

SpecMirrorFile == Init /\ [][NextMirrorFile]_vars

SpecBoot == Init /\ [][NextBoot]_vars

SpecTx == Init /\ [][NextTx]_vars

(***************************************************************************)
(* Claims about the mutex and LockedFS                                      *)
(***************************************************************************)
\* C1: a lock(p) that finds no entry for p inserts an empty queue and its
\* promise is resolved at once, so the caller holds p and proceeds without
\* any unlock(p).  (Stated on the calls that inserted the entry: none of
\* them is left suspended on the promise.)
C1_LockOfFreePathResolves ==
    \A c \in Calls : c \in inserter => pc[c] # "waiting"

\* C2: per path at most one async LockedFS call is inside the wrapped
\* filesystem; while one is, the path is locked and nobody else holds it.
C2_OneCallInsideFs ==
    \A p \in MutexPaths :
        /\ Cardinality(InsideFs(p)) <= 1
        /\ InsideFs(p) # {} => (isLocked(p) /\ ~direct[p] /\ TimersOn(p) = <<>>)

\* C2 witness: a call is inside the filesystem on a path after an earlier
\* call on the same path has finished and unlocked.
C2_Witness ==
    \E c1, c2 \in Calls :
        /\ c1 # c2 /\ cpath[c1] = cpath[c2]
        /\ pc[c1] = "done" /\ pc[c2] = "inFs"

\* C3: after the wrapped operation of a call on p has failed, the mutex on
\* p is released: with nobody waiting for p and nobody else holding it,
\* isLocked(p) is false.
C3_FailureReleasesLock ==
    \A c \in Calls :
        pc[c] = "failed" =>
            LET p == cpath[c] IN
            (locks[p].q = <<>> /\ TimersOn(p) = <<>> /\ InsideFs(p) = {} /\ ~direct[p])
                => ~isLocked(p)

\* C4: waiters of a path are resumed in the order of their lock() calls,
\* one per unlock: the calls already resumed, then the one scheduled by the
\* latest unlock, then those still queued, are exactly the waiters in call
\* order; a lock() arriving after the scheduling joins the back.
C4_FifoResume ==
    \A p \in MutexPaths :
        /\ granted[p] \o TimersOn(p) \o locks[p].q = order[p]
        /\ Len(TimersOn(p)) <= 1

\* C4 witness: a call that locked while another waiter was already
\* scheduled has been resumed, after that waiter.
C4_Witness ==
    \E p \in MutexPaths : \E i \in 2..Len(granted[p]) : granted[p][i] \in late

(***************************************************************************)
(* Claims about the AsyncMirror writer queue                                *)
(***************************************************************************)
\* C5: the operations submitted to the async backend are a prefix of the
\* mutating sync calls that succeeded, in the same order, none skipped or
\* duplicated (what is not yet submitted is exactly the queue, in order),
\* and at most one of them is in flight.
C5_MirrorOrder ==
    /\ msub \o mq = msync
    /\ Cardinality(mfly) <= 1
    /\ \A op \in mfly : \E i \in 1..Len(msub) : msub[i] = op

\* C5 witness: two operations were submitted one after the other while a
\* third was queued behind an operation in flight.
C5_Witness ==
    /\ Len(msub) >= 2
    /\ mq # <<>>
    /\ mfly # {}

\* C6: when every call on the async backend completes successfully, every
\* enqueued mirror operation is submitted and completed and the writer goes
\* idle with an empty queue.  In the form a finite run decides: once no
\* call is in flight and none has failed, nothing is left in the queue, the
\* writer is idle and every enqueued operation is completed.
C6_QueueDrains ==
    (mfly = {} /\ ~mfailed) =>
        /\ mq = <<>>
        /\ ~mrun
        /\ mdone = {msync[i] : i \in 1..Len(msync)}

(***************************************************************************)
(* Claims about the overlay deletion log                                    *)
(***************************************************************************)
\* The log writer is idle: no writeFile of the log is in flight or still
\* in its promise chain.
LogWriterIdle == dw = <<>>

\* C7: every recorded deletion is persisted: once the log writer is idle
\* (and no write has failed) the log file on the upper layer equals the log
\* in memory, so an overlay restarted from the file hides the same paths.
C7_IdleLogPersisted ==
    (LogWriterIdle /\ ~dfailed) =>
        /\ ddisk = dlog
        /\ ReparseDeletionLog(ddisk) = ddel

\* C8: at most one write of the deletion log is in flight, and the updates
\* that arrive while it is pending are coalesced into one follow-up write:
\* the writer does not go idle with an update still needed.
C8_SingleWriteCoalesced ==
    /\ Len(dw) <= 1
    /\ (LogWriterIdle /\ ~dfailed) => ~dneed

(***************************************************************************)
(* Claims about the key-value engine                                        *)
(***************************************************************************)
\* The inodes of a store, and the inode ids its directory listings name.
InodeKeys(st) == {k \in Keys : st[k].k = "inode"}

ListedIds(st) ==
    {st[st[i].id].ents[n] :
        <<i, n>> \in {x \in InodeKeys(st) \X Names :
                         /\ st[x[1]].dir
                         /\ st[st[x[1]].id].k = "list"
                         /\ st[st[x[1]].id].ents[x[2]] # NoId}}

\* No dangling entries, no orphaned inodes, no orphaned data.
StoreWellFormed(st) ==
    /\ \A id \in ListedIds(st) : st[id].k = "inode" /\ st[st[id].id] # Absent
    /\ \A i \in InodeKeys(st) \ {RootId} : i \in ListedIds(st)
    /\ \A k \in Keys \ InodeKeys(st) :
           st[k] # Absent => \E i \in InodeKeys(st) : st[i].id = k

\* C9: after any sequence of mkdir, create, open, writeFile, unlink, rmdir
\* and rename, successful or not, every directory entry names an inode that
\* is in the store together with its data, and every inode but the root and
\* every data blob is referenced.
C9_StoreWellFormed == ~kvRb.on => StoreWellFormed(kv)

\* C10: a mkdir, file creation, unlink, rmdir, rename or file sync that
\* fails leaves the store's contents as they were before the call.
C10_FailedCallRestoresStore == (kvLast.failed /\ kvLast.tx) => kvLast.same

\* C12: once writeFile(p, D) on a file path has completed, a following
\* readFile(p) returns exactly D, on the sync and on the async engine.
C12_ReadAfterWrite ==
    (/\ kvNote.op = "writeFile"
     /\ kvNote.err = "ok"
     /\ ~findINode(kv, kvNote.p).node.dir)
        => readFile(kv, kvNote.p) = [err |-> "ok", data |-> kvNote.data]

\* C13: once close() of a handle has completed, the handle's buffer and its
\* changed metadata are in the store, so that a read that starts then sees
\* them.
C13_CloseHasSynced ==
    (kvNote.op = "close" /\ kvNote.err = "ok" /\ kvNote.dirty)
        => LET node == findINode(kv, kvNote.p) IN
           /\ node.err = "ok"
           /\ kv[node.node.id] = kvNote.data
           /\ node.node.size = BlobLength(kvNote.data)

(***************************************************************************)
(* Claims about rename and mkdir of the key-value filesystem                *)
(***************************************************************************)
\* new lies inside old: new's parent path plus '/' starts with old plus '/'.
LiesInside(new, old) ==
    /\ Len(old) <= Len(new) - 1
    /\ \A i \in 1..Len(old) : new[i] = old[i]

\* The last call was rename(old, new) with new inside old.
RenameIntoItself == kvNote.op = "rename" /\ LiesInside(kvNote.q, kvNote.p)

Renamed == kvNote.op = "rename" /\ kvNote.err = "ok" /\ kvNote.p # kvNote.q

\* After a successful rename: old does not resolve, new resolves to the
\* inode old named before, and a common parent lists new and not old.
RenameMoved ==
    /\ findINode(kv, kvNote.p).err = "ENOENT"
    /\ findINode(kv, kvNote.q).err = "ok"
    /\ findINode(kv, kvNote.q).id = findINode(kvNote.before, kvNote.p).id
    /\ dirname(kvNote.p) = dirname(kvNote.q) =>
          LET list == getDirListing(kv, findINode(kv, dirname(kvNote.p)).node) IN
          /\ list.err = "ok"
          /\ list.ents[basename(kvNote.q)] # NoId
          /\ list.ents[basename(kvNote.p)] = NoId

C20_MkdirOfExistingIsEEXIST ==
    (/\ kvNote.op = "mkdir"
     /\ kvNote.p = <<>> \/ findINode(kvNote.before, kvNote.p).err = "ok")
        => (kvNote.err = "EEXIST" /\ kv = kvNote.before)

(***************************************************************************)
(* Claims about the transaction of the in-memory store                      *)
(***************************************************************************)
\* C11: once a transaction that did any sequence of get, put and del has
\* been aborted, every key it touched holds the bytes it held when the
\* transaction began, and every touched key that did not exist then is
\* absent again.
C11_AbortRestoresPreImage ==
    txPhase = "aborted" =>
        \A key \in txTouched : txn.st[key] = txBegin[key]

\* An abort that had to delete a key the transaction created and to put
\* back the bytes of a key that the transaction overwrote or deleted.
C11_Witness ==
    /\ txPhase = "aborted"
    /\ \E k1, k2 \in txTouched :
          /\ txBegin[k1] = Absent /\ txPre[k1] # Absent
          /\ txBegin[k2] # Absent /\ txPre[k2] # txBegin[k2]
    /\ C11_AbortRestoresPreImage

(***************************************************************************)
(* Claims about the overlay                                                 *)
(***************************************************************************)
\* C14: after unlink(p) has succeeded for a file of the readable layer,
\* exists(p) is false and readdir(dirname(p)) does not list basename(p),
\* whatever the directory, the root included.
C14_UnlinkedIsGone ==
    (/\ ovNote.op = "unlink" /\ ovNote.err = "ok"
     /\ ovLower[ovNote.p].t = "file")
        => /\ ~OverlayExists(Overlay, ovNote.p)
           /\ \A form \in OvForms :
                 basename(ovNote.p)
                     \notin OverlayReaddir(form, Overlay, dirname(ovNote.p)).names

\* What C15 says stat(p) gives.
StatAsClaimed(o, p) ==
    IF o.up[p].t # "none" THEN [err |-> "ok", node |-> o.up[p]]
    ELSE IF p \in o.del \/ o.lo[p].t = "none" THEN [err |-> "ENOENT", node |-> NoNode]
    ELSE [err |-> "ok",
          node |-> [t |-> o.lo[p].t, d |-> o.lo[p].d, perm |-> o.lo[p].perm \cup {"w"}]]

\* C15: stat(p), sync and async, gives the writable layer's stats when p is
\* there; else ENOENT when p is marked deleted; else the readable layer's
\* stats made writable, of the same type.
C15_StatPrefersUpperThenLower ==
    \A form \in OvForms, p \in OvAll :
        OverlayStat(form, Overlay, p) = StatAsClaimed(Overlay, p)

\* C17: chmod of a path that is on the readable layer alone copies it up:
\* afterwards the writable layer holds the path with the readable layer's
\* bytes and the requested mode.
C17_ChmodCopiesUp ==
    (ovNote.op = "chmod" /\ ovNote.lowerOnly)
        => /\ ovNote.err = "ok"
           /\ ovUpper[ovNote.p] = [ovLower[ovNote.p] EXCEPT !.perm = ovNote.perm]

\* C16: no call of the overlay changes the readable layer: whatever is
\* unlinked, removed, made, written, chmod-ed or renamed, the readable
\* layer holds what it held at the start.
C16_ReadableIsNeverMutated == ovLower = LowerTree

\* A directory that was on the readable layer alone has been renamed with
\* its entries, which are now marked deleted under their old names.
C16_Witness ==
    /\ ovNote.op = "rename" /\ ovNote.err = "ok"
    /\ ovNote.p = <<"d">> /\ ovNote.q = <<"e">>
    /\ ovNote.lowerOnly
    /\ <<"d", "f">> \in ovDeleted
    /\ <<"d">> \in ovDeleted
    /\ ovUpper[<<"e", "s">>].t = "dir"
    /\ ovLower = LowerTree

(***************************************************************************)
(* Claims about modes and owners                                            *)
(***************************************************************************)
\* Some class the caller belongs to (owner, group, others) has the write
\* bit of the octal mode, or the caller is root.
HasWritePermission(stats, cred) ==
    \/ cred.uid = 0 \/ cred.gid = 0
    \/ cred.uid = stats.uid /\ BitAnd(stats.mode, 128) # 0
    \/ cred.gid = stats.gid /\ BitAnd(stats.mode, 16) # 0
    \/ BitAnd(stats.mode, 2) # 0

\* C21: creating a file or directory succeeds only if the caller has write
\* permission on the parent directory; otherwise it ends with EACCES and
\* nothing is created; both engines decide alike for every credential and
\* every mode of the parent.
C21_CreateNeedsWriteAccess ==
    mdNote.op = "create"
        => /\ mdNote.err = "ok" => HasWritePermission(mdInode, mdNote.cred)
           /\ ~HasWritePermission(mdInode, mdNote.cred)
                 => (mdNote.err = "EACCES" /\ ~mdNote.created)
           /\ commitAccess("sync", mdInode, mdNote.cred)
                 = commitAccess("async", mdInode, mdNote.cred)

\* The engine that is not e.
OtherEngine(e) == IF e = "sync" THEN "async" ELSE "sync"

\* The create of MdCreate as the given engine runs it on the same store, the
\* same directory and the same credentials.
CreateUnder(engine, isDir, cred) ==
    RunTx(kv, commitNewFile(kv, <<"a">>, isDir, commitAccess(engine, mdInode, cred),
                            FreshIds(kv)), 0, FALSE)

\* C40: a create ends, in the engine that ran it, with the error code and
\* the tree the other engine gives for the same tree, the same credentials
\* and the same call.
C40_EnginesGiveTheSameOutcome ==
    mdNote.op = "create"
        => \A isDir \in BOOLEAN :
              LET here == CreateUnder(kvEngine, isDir, mdNote.cred)
                  there == CreateUnder(OtherEngine(kvEngine), isDir, mdNote.cred)
              IN /\ there.err = mdNote.err
                 /\ (there.st # kv) = mdNote.created
                 /\ there.st = here.st

\* C22: after a chown(p, uid, gid) with unsigned 32-bit values that
\* succeeded, the stored inode, which a fresh stat reads, has the new uid
\* and the new gid.
C22_ChownReachesTheInode ==
    (/\ mdNote.op = "chown" /\ mdNote.err = "ok"
     /\ mdNote.uid >= 0 /\ mdNote.gid >= 0)
        => (mdInode.uid = mdNote.uid /\ mdInode.gid = mdNote.gid)

(***************************************************************************)
(* Claims about mounts                                                      *)
(***************************************************************************)
\* The mount point m is the path p or a directory above it.
IsAbove(m, p) == m = Slash \/ m = p \/ startsWith(p, m \o Slash)

\* The longest mount point that is p or above it.
MountOf(ms, p) ==
    CHOOSE m \in ms : IsAbove(m, p) /\ \A o \in ms : IsAbove(o, p) => Len(o) <= Len(m)

\* The path p as the filesystem mounted at m sees it.
PathInside(m, p) ==
    IF m = Slash THEN p ELSE IF m = p THEN Slash ELSE SubSeq(p, Len(m) + 1, Len(p))

\* C23: rename(old, new) calls the rename of the backend exactly when old
\* and new resolve to the same mount, and reads, writes and unlinks only
\* when they resolve to different mounts.
C23_RenameWithinOneMountIsBackendRename ==
    (/\ mtNote.op = "rename"
     /\ \E m \in mtMounts : startsWith(mtNote.p, m)
     /\ \E m \in mtMounts : startsWith(mtNote.q, m))
        => LET same == resolveFS(mtMounts, mtNote.p, 0).fs = resolveFS(mtMounts, mtNote.q, 0).fs
           IN /\ same <=> mtNote.calls = <<"rename">>
              /\ ~same <=> mtNote.calls[1] = "readFile"

C38_RoutedOnSegmentBoundary ==
    (mtNote.op = "resolve" /\ mtNote.r.err = "ok")
        => /\ IsAbove(mtNote.r.fs, mtNote.p)
           /\ mtNote.r.path[1] = "/"

\* C39: initialize({'/': fs}) succeeds and leaves fs mounted at '/' whether
\* or not the default root mount has run, and a default mount that runs
\* after it does not throw and leaves fs at '/'.
C39_InitializeWinsOverDefaultMount ==
    (/\ btNote.op = "initialize"
     /\ btNote.mapping = <<[point |-> Slash, fs |-> "fs"]>>)
        => /\ btNote.err = "ok"
           /\ btMounts[Slash] = "fs"
           /\ btNote.late => btNote.default = "ok"

\* C25: readdir(d) returns the listing of the backend and the name of every
\* mount point exactly one segment beneath d, and no other name.
C25_ReaddirAddsMountsBeneath ==
    mtNote.op = "readdir"
        => mtNote.names
             = mtNote.listing
               \cup {n \in {<<"a">>, <<"b">>, <<"a", "b">>} :
                       (IF mtNote.p = Slash THEN Slash \o n ELSE mtNote.p \o Slash \o n)
                           \in mtMounts}

(***************************************************************************)
(* Claims about file descriptors                                            *)
(***************************************************************************)
\* C26: the table maps a descriptor to a handle exactly from the open that
\* returned it until its close has returned; the descriptors returned are
\* 100, 101, ... in turn and none is returned twice; a call on a descriptor
\* that is closed or was never returned ends with EBADF.
C26_FdTableTracksOpenDescriptors ==
    /\ \A fd \in Fds, h \in Handles :
          fdMap[fd] = h <=> (<<fd, h>> \in fdEver /\ fd \notin fdClosed)
    /\ {e[1] : e \in fdEver} = {fd \in Fds : FirstFd <= fd /\ fd < nextFd}
    /\ ~fdReused
    /\ fdNote.op \in {"op", "close"} => (fdNote.err = "EBADF" <=> ~fdNote.mapped)

\* Two descriptors were returned, the first is closed, the second is open,
\* and a call on the closed one has just ended with EBADF.
C26_Witness ==
    /\ nextFd = FirstFd + 2
    /\ fdClosed = {FirstFd}
    /\ fdMap[FirstFd + 1] # NoHandle
    /\ fdNote = [op |-> "op", fd |-> FirstFd, err |-> "EBADF", mapped |-> FALSE]

(***************************************************************************)
(* Claims about the synchronous methods of LockedFS                         *)
(***************************************************************************)
\* C27: a synchronous LockedFS call on path p throws "invalid sync call"
\* exactly when the mutex holds an entry for p at the time of the call;
\* otherwise it delegates to the wrapped filesystem; in both cases the
\* mutex is left as it was (nothing acquired, nothing released).
C27_SyncCallThrowsIffLocked ==
    [][lsNote' # lsNote
         => /\ lsNote'.op = "sync"
            /\ lsNote'.threw <=> locks[lsNote'.p].has
            /\ lsNote'.delegated <=> ~locks[lsNote'.p].has
            /\ locks' = locks /\ timers' = timers]_vars

\* A synchronous call threw on a path on which an asynchronous call is
\* inside the wrapped filesystem, and that path is still locked.
C27_Witness ==
    /\ lsNote.op = "sync" /\ lsNote.threw /\ ~lsNote.delegated
    /\ InsideFs(lsNote.p) # {}
    /\ locks[lsNote.p].has

(***************************************************************************)
(* Claims about PreloadFile                                                 *)
(***************************************************************************)
\* C28: on a handle opened with a writable, non-synchronous flag, a write of
\* length bytes of the caller's buffer returns length, puts those bytes at
\* the position it writes to, and leaves the file position right behind them
\* (position + length), so that a following write without position continues
\* there.
C28_WriteLeavesPositionBehindTheBytes ==
    (/\ pfNote.op = "write" /\ pfNote.err = "ok"
     /\ isWriteable(pf.flag) /\ ~isSynchronous(pf.flag)
     /\ pfNote.offset + pfNote.length <= Len(pfNote.buffer))
        => /\ pfNote.ret = pfNote.length
           /\ SubSeq(pf.buffer, pfNote.at + 1, pfNote.at + pfNote.length)
                = SubSeq(pfNote.buffer, pfNote.offset + 1, pfNote.offset + pfNote.length)
           /\ pf.pos = pfNote.at + pfNote.length

\* C29: on a handle opened with an append flag, the bytes of every write are
\* put at the end the file had before the write, whatever the position
\* argument and the handle's own position are.
C29_AppendWritesLandAtTheEnd ==
    (/\ pfNote.op = "write" /\ pfNote.err = "ok"
     /\ isAppendable(pf.flag))
        => pfNote.at = pfNote.sizeBefore

\* C30: a read on a readable handle returns n = min(length, size - position),
\* which is not negative, leaves the caller's buffer changed only in
\* [offset, offset + n), where it holds the file bytes [position, position + n),
\* and leaves the file position at position + n.
C30_ReadCopiesTheRangeAsked ==
    (/\ pfNote.op = "read" /\ pfNote.err = "ok"
     /\ isReadable(pf.flag))
        => LET n == pfNote.ret IN
             /\ n = (IF pfNote.length <= pf.size - pfNote.at
                        THEN pfNote.length ELSE pf.size - pfNote.at)
             /\ n >= 0
             /\ pfNote.out
                  = [i \in 1..Len(pfNote.buffer) |->
                       IF i > pfNote.offset /\ i <= pfNote.offset + n
                          THEN pf.buffer[pfNote.at + i - pfNote.offset]
                          ELSE pfNote.buffer[i]]
             /\ pf.pos = pfNote.at + n

(***************************************************************************)
(* Claims about FileFlag                                                    *)
(***************************************************************************)
\* C31: for each of the twelve valid flag strings the object getFileFlag
\* returns gives the string back; its action for an existing path is
\* THROW_EXCEPTION for the exclusive flags, TRUNCATE_FILE for w and w+ and
\* NOP for r, r+, rs, rs+, a, a+; its action for a missing path is
\* CREATE_FILE for the w and a flags and THROW_EXCEPTION for r, r+, rs, rs+.
C31_FlagActionTable ==
    (ffNote.op = "get" /\ ffNote.flag \in validFlagStrs)
        => /\ ffNote.err = "ok"
           /\ ffNote.str = ffNote.flag
           /\ ffNote.exists
                = (IF ffNote.flag \in {"wx", "wx+", "ax", "ax+"} THEN "THROW_EXCEPTION"
                   ELSE IF ffNote.flag \in {"w", "w+"} THEN "TRUNCATE_FILE"
                   ELSE "NOP")
           /\ ffNote.notExists
                = (IF ffNote.flag \in {"r", "r+", "rs", "rs+"} THEN "THROW_EXCEPTION"
                   ELSE "CREATE_FILE")

(***************************************************************************)
(* Claims about FolderAdapter                                               *)
(***************************************************************************)
\* C32: when nothing else touches the folder while _initialize runs and the
\* folder's parent is a directory, _initialize succeeds whenever the folder
\* exists on the wrapped filesystem, creates the folder exactly when it is
\* missing and the wrapped filesystem is writable, and fails only when the
\* folder is missing and the wrapped filesystem is read-only.
C32_InitializeNeedsFolderOnlyWhenReadonly ==
    (/\ faNote.op = "init"
     /\ faNote.exists = faNote.existsAtMkdir
     /\ faNote.parentIsDir)
        => /\ faNote.exists => faNote.err = "ok"
           /\ faNote.created <=> (~faNote.exists /\ ~WrappedReadonly(faNote.which))
           /\ faNote.err # "ok" => (~faNote.exists /\ WrappedReadonly(faNote.which))

(***************************************************************************)
(* Claims about the overlay's rename and rmdir                              *)
(***************************************************************************)
\* The overlay after the step.
OverlayAfter == [up |-> ovUpper', lo |-> ovLower', del |-> ovDeleted']

\* p is a directory of the overlay.
IsOverlayDir(o, p) ==
    /\ OverlayExists(o, p)
    /\ (IF FsExists(o.up, p) THEN o.up[p].t ELSE o.lo[p].t) = "dir"

\* C33: a rename of a directory of the overlay to a destination that does
\* not exist, in a directory that does, succeeds, whatever mixture of
\* entries on the writable layer, on the readable layer and deleted ones the
\* directory has; afterwards the destination lists what the directory listed
\* before, and the directory does not exist.
C33_DirectoryRenameMovesTheListing ==
    [][(/\ ovCalls' # ovCalls
        /\ ovNote'.op = "rename"
        /\ IsOverlayDir(Overlay, ovNote'.p)
        /\ ~OverlayExists(Overlay, ovNote'.q)
        /\ (dirname(ovNote'.q) = <<>> \/ IsOverlayDir(Overlay, dirname(ovNote'.q))))
          => /\ ovNote'.err = "ok"
             /\ OverlayReaddir("sync", OverlayAfter, ovNote'.q)
                  = OverlayReaddir("sync", Overlay, ovNote'.p)
             /\ ~OverlayExists(OverlayAfter, ovNote'.p)]_vars

\* C36: an rmdir of the overlay that ends with ENOTEMPTY leaves the writable
\* layer and the deletion log as they were.
C36_FailedRmdirChangesNothing ==
    [][(/\ ovCalls' # ovCalls
        /\ ovNote'.op = "rmdir"
        /\ ovNote'.err = "ENOTEMPTY")
          => /\ ovUpper' = ovUpper
             /\ ovDeleted' = ovDeleted]_vars

(***************************************************************************)
(* Claims about the path cache                                              *)
(***************************************************************************)
\* C34: while a rename is in progress this._cache is null, and whenever a
\* lookup is answered from the cache the id it gets is the one the
\* directory listing holds for that path at that moment.
C34_CacheAnswersAreCurrent ==
    /\ (\E c \in CacheCalls : kcCall[c].op = "rename" /\ kcCall[c].st # "done") => ~kcOn
    /\ (kcNote.op = "lookup" /\ kcNote.fromCache) => kcNote.id = kcNote.listed

(***************************************************************************)
(* Claims about addNewNode                                                  *)
(***************************************************************************)
\* C35: addNewNode ends; an id it returns was absent from the store before
\* the call and holds the given data after it; no id in use is overwritten;
\* and with a store whose put does not throw it makes one put per id drawn,
\* up to 5, returning the first id that was free and failing with EIO when
\* the first 5 ids drawn were all in use.
C35_AddNewNodeReturnsAFreshId ==
    anNote.op = "add"
        => /\ anNote.err # "running"
           /\ anNote.err = "ok" => (anNote.wasAbsent /\ anStore[anNote.id] = anNote.data)
           /\ anNote.kept
           /\ ~anNote.throws
                => /\ anNote.err \in {"ok", "EIO"}
                   /\ anNote.err = "EIO" <=> anNote.collisions >= 5
                   /\ anNote.attempts = (IF anNote.collisions >= 5 THEN 5
                                         ELSE anNote.collisions + 1)

(***************************************************************************)
(* Claims about the trees of AsyncMirror                                    *)
(***************************************************************************)
\* C37: whenever the queue is empty, the writer idle, nothing in flight, no
\* async call has failed and no file is open, the async backend holds what
\* the sync backend holds.
C37_BackendsAgreeWhenIdle ==
    (/\ mq = <<>> /\ ~mrun /\ mfly = {} /\ ~mfailed
     /\ mfFd.flag = "none")
        => mfAsync = mfSync

====
